---- MODULE Spec2Model ----
(***************************************************************************)
(* LoRabotModule (src/src/modules/LoRabotModule.cpp): the pet's state      *)
(* engine, its cooperative step scheduler, the inbound packet handler, the *)
(* friend list and the Preferences snapshot.                               *)
(*                                                                         *)
(* Time is millis() in milliseconds.  Every handler reads the clock once,  *)
(* at its start; the time a scheduler step takes is added to the clock     *)
(* when the step ends.  Every horizon is far below 2^32, so the uint32     *)
(* differences (now - t) never wrap.                                       *)
(*                                                                         *)
(* A run is sampled at the instants 1000k, 1000k+60 and 1000k+120 ms: the  *)
(* host calls runOnce() on time twice a second and late the third time.    *)
(***************************************************************************)
EXTENDS Integers, Sequences, FiniteSets, TLC

VARIABLES
    pet,          \* the LoRabotModule object's fields
    stepState,    \* LoRabotStepState stepState
    now,          \* millis()
    nextRunAt,    \* OSThread: earliest time of the next runOnce()
    numMeshNodes, \* nodeDB->getNumMeshNodes()
    txGood,       \* RadioLibInterface::instance->txGood
    prefs,        \* the "lorabot" Preferences namespace
    alive,        \* the module object exists (between constructor and destructor)
    rxCount,      \* inbound packets handled so far (bounds the run)
    boots,        \* constructor runs so far (bounds the run)
    lastOp,       \* history: the handler that ran last
    lastRx,       \* history: the packet handleReceived() was last called with
    calcRet,      \* history: what the last calculateNewState() returned
    calcAt,       \* history: the clock the last calculateNewState() read
    savedFrom,    \* history: the fields the last saveState() read
    analysis,     \* the classifier called last on its own, its inputs and result
    batteryChargePercent, \* the battery level the power status reports, 0 if unknown
    drawStatics,  \* the static locals of drawFrame()
    draft,        \* the INTENSE fields of the earlier draft of the module
    nodeChecks    \* history: the totals and classifications of the last two node checks

vars == <<pet, stepState, now, nextRunAt, numMeshNodes, txGood, prefs, alive,
          rxCount, boots, lastOp, lastRx, calcRet, calcAt, savedFrom, analysis,
          batteryChargePercent, drawStatics, draft, nodeChecks>>

----------------------------------------------------------------------------
(* enum PetState : uint8_t *)
AWAKE == 0
LOOKING_AROUND_RIGHT == 1
LOOKING_AROUND_LEFT == 2
HAPPY == 3
EXCITED == 4
SLEEPY1 == 5
SLEEPY2 == 6
GRATEFUL == 7
BLINK == 8
DEMOTIVATED == 9
SENDER == 10

(* enum LoRabotStep : uint8_t *)
STEP_PET_STATE_UPDATE == 0
STEP_NODE_DISCOVERY_CHECK == 1
STEP_SENDER_DETECTION == 2
STEP_DISPLAY_UPDATE == 3
STEP_MESSAGE_PROCESSING == 4
STEP_CLEANUP == 5
STEP_YIELD == 6

(* enum TextMessageDirection : uint8_t *)
MY_TEXT_TO_SOMEONE == 0
TEXT_TO_ME_DIRECT == 1
TEXT_BROADCAST_BY_ME == 2
TEXT_BROADCAST_BY_OTHER == 3
TEXT_RELAYED == 4

(* enum NodeDiscoveryType : uint8_t *)
NEW_NODE_DISCOVERED == 0
NODE_COUNT_CHANGED == 1
NODE_COUNT_UNCHANGED == 2
FIRST_BOOT_DETECTION == 3
SENDING_INTERFERENCE == 4

MAX_FRIENDS == 8
MAX_STEP_TIME_MS == 60
FriendNodeSize == 12          \* sizeof(FriendNode): uint32, uint8 (+3 padding), uint32
TEXT_MESSAGE_APP == 1         \* meshtastic_PortNum_TEXT_MESSAGE_APP
POSITION_APP == 3             \* meshtastic_PortNum_POSITION_APP
NODENUM_BROADCAST == 2147483647  \* stands for 0xffffffff (TLC integers are 32-bit signed)
Absent == -1                  \* a Preferences key that was never written

----------------------------------------------------------------------------
(* Bounds of the model *)
MaxTime == 13000              \* the clock stops here
FineSpan == 120               \* passes are sampled in the first FineSpan ms of a second
MaxRx == 1                    \* inbound packets per run
MaxTx == 2                    \* txGood stops here
MaxBoots == 2                 \* constructor runs per run
MaxFriendRx == 3              \* inbound packets per run of SpecPersist
PersistHorizon == 1120        \* the clock of SpecPersist stops here
BootHorizon == 2120           \* the clock of SpecBoot stops here
SchedHorizon == 1500          \* the clock of SpecSched stops here
GateHorizon == 8120           \* the clock of SpecGate stops here
MaxHop == 3                   \* hop_start and hop_limit range over 0..MaxHop
MaxCount == 3                 \* node counts range over 0..MaxCount (+1 for the total)
MaxLate == 1                  \* the host is at most this many ms late
PowerHorizon == 3120          \* the clock of SpecPower stops here
DrawHorizon == 7120
IntenseHorizon == 14000       \* the runs of the draft's INTENSE fields
IntenseStep == 1000           \* and the grain of their clock
MaxIntenseRx == 5             \* packets the draft receives in a run           \* the clock of SpecDraw stops here
SendingHorizon == 9120         \* the clock of SpecSending stops here
LongHorizon == 64120          \* the clock of SpecLong stops here
MaxClock == 65000             \* no step ends after this

MyNodeNum == 7                \* nodeDB->getNodeNum()

----------------------------------------------------------------------------
(* Arithmetic of the fixed-width fields *)
U8(x) == x % 256

Min(S) == CHOOSE x \in S : \A y \in S : x <= y

(* struct FriendNode, zeroed by the constructor's memset *)
EmptyFriend == [nodeId |-> 0, encounters |-> 0, lastSeen |-> 0]

(* uint32_t LoRabotModule::getUpdateInterval() *)
getUpdateInterval == 60

(* bool LoRabotModule::isNightTime(): both exits return false *)
isNightTime == FALSE

(* bool LoRabotModule::isLowBattery() *)
isLowBattery == FALSE

(* A result of one branch of calculateNewState(): either the function       *)
(* returned `ret` there, or control falls through to the next branch.       *)
Ret(p, s) == [pet |-> p, done |-> TRUE, ret |-> s]
Cont(p) == [pet |-> p, done |-> FALSE, ret |-> AWAKE]

----------------------------------------------------------------------------
(* void LoRabotModule::processNetworkEvent() *)
processNetworkEvent(p, t) == [p EXCEPT !.lastActivityTime = t]

(* friends[i].encounters++ on a uint8_t *)
BumpEncounters(e) == U8(e + 1)

(* the guard of the append branch of updateFriendsList() *)
HasSpace(p) == p.friendCount < MAX_FRIENDS

(* void LoRabotModule::updateFriendsList(uint32_t nodeId); the slots the    *)
(* loop reads behind the array when friendCount > MAX_FRIENDS are the       *)
(* matter of ReadsPastEnd and PastEndOutcomes                               *)
updateFriendsList(p, nodeId, t) ==
    LET hits == {i \in 0..(Min({p.friendCount, MAX_FRIENDS}) - 1) :
                    p.friends[i].nodeId = nodeId}
    IN  IF hits # {}
        THEN LET i == Min(hits)
             IN  [p EXCEPT !.friends[i].encounters = BumpEncounters(@),
                           !.friends[i].lastSeen = t]
        ELSE IF HasSpace(p)
        THEN [p EXCEPT !.friends[p.friendCount] =
                           [nodeId |-> nodeId, encounters |-> 1, lastSeen |-> t],
                       !.friendCount = U8(p.friendCount + 1)]
        ELSE p

(* TextMessageDirection LoRabotModule::analyzeTextMessage(mp) *)
analyzeTextMessage(mp) ==
    LET isFromMe == mp.from = MyNodeNum
        isBroadcast == mp.to = NODENUM_BROADCAST
        isToMe == mp.to = MyNodeNum
        isFirstHop == mp.hop_start = mp.hop_limit /\ mp.hop_limit > 0
    IN  IF mp.portnum # TEXT_MESSAGE_APP THEN TEXT_RELAYED
        ELSE IF isFromMe
             THEN (IF isBroadcast THEN TEXT_BROADCAST_BY_ME ELSE MY_TEXT_TO_SOMEONE)
        ELSE IF isToMe /\ ~isBroadcast THEN TEXT_TO_ME_DIRECT
        ELSE IF isBroadcast /\ isFirstHop THEN TEXT_BROADCAST_BY_OTHER
        ELSE TEXT_RELAYED

(* TextMessageAnalysis LoRabotModule::analyzeTextMessageDirection(mp) *)
analyzeTextMessageDirection(mp) ==
    IF mp.portnum # TEXT_MESSAGE_APP
    THEN [direction |-> TEXT_RELAYED, shouldReact |-> FALSE, suggestedState |-> AWAKE]
    ELSE LET d == analyzeTextMessage(mp)
         IN  [direction |-> d,
              shouldReact |-> d # TEXT_RELAYED,
              suggestedState |-> IF d \in {TEXT_TO_ME_DIRECT, TEXT_BROADCAST_BY_OTHER}
                                 THEN EXCITED ELSE AWAKE]

(* the condition of the first branch of handleReceived() *)
TriggersExcited(mp) ==
    (mp.portnum = 1 \/ mp.portnum = 3) /\ mp.from # 0

(* ProcessMessage LoRabotModule::handleReceived(mp) *)
handleReceived(p, mp, t) ==
    LET p1 == processNetworkEvent(p, t)
        p2 == IF TriggersExcited(mp)
              THEN [p1 EXCEPT !.excitedStartTime = t,
                              !.inExcitedState = TRUE,
                              !.showingMessagePopup = TRUE,
                              !.messagePopupTime = t,
                              !.currentState = EXCITED,
                              !.lastStateChange = t]
              ELSE p1   \* the else-if branch only computes an analysis
    IN  IF mp.from # 0 THEN updateFriendsList(p2, mp.from, t) ELSE p2

(* the loop of updateFriendsList() runs i up to friendCount - 1: with a     *)
(* count above the capacity and no match in the array it reads              *)
(* friends[MAX_FRIENDS], which is not an element of the array               *)
ReadsPastEnd(p, mp) ==
    /\ mp.from # 0
    /\ p.friendCount > MAX_FRIENDS
    /\ \A i \in 0..(MAX_FRIENDS - 1) : p.friends[i].nodeId # mp.from

(* what friendCount, the member behind the array, can hold after a write    *)
(* through friends[MAX_FRIENDS]                                             *)
PastEndCounts == {0, MAX_FRIENDS, MAX_FRIENDS + 1}

(* the read past the end either finds no match and changes nothing, or      *)
(* finds one and writes encounters and lastSeen behind the array            *)
PastEndOutcomes(p) ==
    {p} \cup {[p EXCEPT !.friendCount = c] : c \in PastEndCounts}

(* the object after handleReceived(mp): one outcome, unless the friend loop *)
(* leaves the array                                                         *)
handleReceivedOutcomes(p, mp, t) ==
    IF ReadsPastEnd(p, mp)
    THEN PastEndOutcomes(handleReceived(p, mp, t))
    ELSE {handleReceived(p, mp, t)}

triggerSenderStateOldStart(p, t) ==
    [p EXCEPT !.inSenderState = TRUE,
              !.senderMessageIndex = (p.senderMessageIndex + 1) % 5,
              !.isSendingMessage = TRUE,
              !.pendingSenderTrigger = FALSE,
              !.currentState = SENDER,
              !.lastStateChange = t]

(* void triggerSenderState() *)
triggerSenderState(p, t) ==
    [p EXCEPT !.inSenderState = TRUE,
              !.senderStartTime = t,
              !.senderMessageIndex = (p.senderMessageIndex + 1) % 5,
              !.isSendingMessage = TRUE,
              !.pendingSenderTrigger = FALSE,
              !.currentState = SENDER,
              !.lastStateChange = t]

----------------------------------------------------------------------------
(* calculateNewState(), branch by branch *)

BlinkActiveLong(p, t) == p.inBlinkState /\ (t - p.blinkStartTime) < 1100

(* blinkDuration < 80 *)
BlinkActive(p, t) == p.inBlinkState /\ (t - p.blinkStartTime) < 80

SenderActiveLong(p, t) == p.inSenderState /\ ((t - p.senderStartTime) \div 1000) < 3

(* senderDuration < 2, senderDuration = (now - senderStartTime) / 1000 *)
SenderActive(p, t) == p.inSenderState /\ ((t - p.senderStartTime) \div 1000) < 2

(* excitedDuration < 6 *)
ExcitedActive(p, t) == p.inExcitedState /\ ((t - p.excitedStartTime) \div 1000) < 6

ExcitedFaceLate(excitedDuration) == IF excitedDuration < 4 THEN EXCITED ELSE GRATEFUL

(* the face of the excited/grateful cycle at excitedDuration seconds *)
ExcitedFace(excitedDuration) == IF excitedDuration < 3 THEN EXCITED ELSE GRATEFUL

HappyActiveLong(p, t) == p.showingNewNode /\ (t - p.nodeDiscoveryTime) < 9000

(* showingNewNode && (now - nodeDiscoveryTime) < 8000 *)
HappyActive(p, t) == p.showingNewNode /\ (t - p.nodeDiscoveryTime) < 8000

(* bool LoRabotModule::shouldTriggerBlink() *)
shouldTriggerBlink(p, t) == t >= p.nextBlinkTime /\ ~p.inBlinkState

(* the switch on lookingCycle *)
LookFace(c) ==
    CASE c = 0 -> LOOKING_AROUND_LEFT
      [] c = 1 -> LOOKING_AROUND_RIGHT
      [] c = 2 -> AWAKE
      [] OTHER -> AWAKE

BlinkBranchShort(p, t, r) ==
    IF p.inBlinkState
    THEN IF BlinkActive(p, t)
         THEN Ret(p, BLINK)
         ELSE Cont([p EXCEPT !.inBlinkState = FALSE, !.nextBlinkTime = t + (r \div 4)])
    ELSE Cont(p)

(* lines 506-516: the BLINK branch; r is the value random(2000, 5000) gives *)
BlinkBranch(p, t, r) ==
    IF p.inBlinkState
    THEN IF BlinkActive(p, t)
         THEN Ret(p, BLINK)
         ELSE Cont([p EXCEPT !.inBlinkState = FALSE, !.nextBlinkTime = t + r])
    ELSE Cont(p)

(* lines 520-533: the SENDER branch *)
SenderBranch(p, t) ==
    IF p.inSenderState
    THEN IF SenderActive(p, t)
         THEN Ret(p, SENDER)
         ELSE Cont([p EXCEPT !.inSenderState = FALSE,
                             !.isSendingMessage = FALSE,
                             !.pendingSenderTrigger = FALSE])
    ELSE Cont(p)

ExcitedBranchEndsDiscovery(p, t) ==
    IF p.inExcitedState
    THEN IF ExcitedActive(p, t)
         THEN Ret(p, ExcitedFace((t - p.excitedStartTime) \div 1000))
         ELSE Cont([p EXCEPT !.inExcitedState = FALSE, !.showingNewNode = FALSE])
    ELSE Cont(p)

(* lines 535-548: the excited/grateful branch *)
ExcitedBranch(p, t) ==
    IF p.inExcitedState
    THEN IF ExcitedActive(p, t)
         THEN Ret(p, ExcitedFace((t - p.excitedStartTime) \div 1000))
         ELSE Cont([p EXCEPT !.inExcitedState = FALSE])
    ELSE Cont(p)

(* PetState LoRabotModule::handleSleepyStateCycling() *)
handleSleepyStateCycling(p, t) ==
    IF ~p.inSleepyState
    THEN Ret([p EXCEPT !.inSleepyState = TRUE,
                       !.lastSleepyCycleTime = t,
                       !.currentSleepyFace = FALSE,
                       !.currentState = SLEEPY1], SLEEPY1)
    ELSE IF (t - p.lastSleepyCycleTime) >= 1000
    THEN LET f == ~p.currentSleepyFace
             q == [p EXCEPT !.currentSleepyFace = f,
                            !.lastSleepyCycleTime = t,
                            !.currentState = IF f THEN SLEEPY2 ELSE SLEEPY1]
         IN  Ret(q, q.currentState)
    ELSE Ret(p, p.currentState)

ExitSleepyFlagOnly(p) == [p EXCEPT !.inSleepyState = FALSE]

(* lines 554-559: the forced exit from the sleepy state *)
ExitSleepy(p) == [p EXCEPT !.inSleepyState = FALSE, !.currentState = AWAKE]

(* lines 550-559: the sleepy branch *)
SleepyBranch(p, t) ==
    IF isNightTime \/ isLowBattery
    THEN handleSleepyStateCycling(p, t)
    ELSE Cont(ExitSleepy(p))

(* lines 561-564: the HAPPY branch *)
HappyBranch(p, t) ==
    IF HappyActive(p, t) THEN Ret(p, HAPPY) ELSE Cont(p)

(* lines 580-607: the look cycle, advanced every second *)
LookCycle(p, t) ==
    IF (t - p.lastFaceAnimationTime) >= 1000
    THEN LET c == (p.lookingCycle + 1) % 3
         IN  [p EXCEPT !.lookingCycle = c,
                       !.lastFaceAnimationTime = t,
                       !.currentState = LookFace(c)]
    ELSE p

(* lines 609-613: the funny-message rotation *)
FunnyRotation(p, t) ==
    IF (t - p.lastFunnyMessageTime) >= 5000
    THEN [p EXCEPT !.funnyMessageIndex = (p.funnyMessageIndex + 1) % 8,
                   !.lastFunnyMessageTime = t]
    ELSE p

IdleBranchAlwaysLooks(p, t) ==
    IF p.currentState = AWAKE /\ shouldTriggerBlink(p, t)
    THEN Ret([p EXCEPT !.inBlinkState = TRUE,
                       !.blinkStartTime = t,
                       !.currentState = BLINK], BLINK)
    ELSE LET q == FunnyRotation(LookCycle(p, t), t)
         IN  Ret(q, q.currentState)

(* lines 566-621: the default branch *)
IdleBranch(p, t) ==
    IF p.currentNodeCount > 0
    THEN IF p.currentState = AWAKE /\ shouldTriggerBlink(p, t)
         THEN Ret([p EXCEPT !.inBlinkState = TRUE,
                            !.blinkStartTime = t,
                            !.currentState = BLINK], BLINK)
         ELSE LET q == FunnyRotation(LookCycle(p, t), t)
              IN  Ret(q, q.currentState)
    ELSE Ret(p, AWAKE)

calculateNewStateSenderFirst(p, t, r) ==
    LET b == SenderBranch(p, t) IN
    IF b.done THEN b ELSE
    LET a == BlinkBranch(b.pet, t, r) IN
    IF a.done THEN a ELSE
    LET c == ExcitedBranch(a.pet, t) IN
    IF c.done THEN c ELSE
    LET d == SleepyBranch(c.pet, t) IN
    IF d.done THEN d ELSE
    LET e == HappyBranch(d.pet, t) IN
    IF e.done THEN e ELSE
    IdleBranch(e.pet, t)

(* PetState LoRabotModule::calculateNewState() *)
calculateNewState(p, t, r) ==
    LET a == BlinkBranch(p, t, r) IN
    IF a.done THEN a ELSE
    LET b == SenderBranch(a.pet, t) IN
    IF b.done THEN b ELSE
    LET c == ExcitedBranch(b.pet, t) IN
    IF c.done THEN c ELSE
    LET d == SleepyBranch(c.pet, t) IN
    IF d.done THEN d ELSE
    LET e == HappyBranch(d.pet, t) IN
    IF e.done THEN e ELSE
    IdleBranch(e.pet, t)

(* the states whose transitions updatePetState() applies at once *)
ImmediateStates == {EXCITED, HAPPY, SENDER}

DwellElapsedShort(p, t) == (t - p.lastStateChange) > 2000

(* (now - lastStateChange) > 5000 *)
DwellElapsed(p, t) == (t - p.lastStateChange) > 5000

(* void LoRabotModule::updatePetState(); `save` tells whether saveState() ran *)
updatePetState(p, t, r) ==
    LET c == calculateNewState(p, t, r)
        q == c.pet
        newState == c.ret
        shouldChangeState ==
            /\ newState # q.currentState
            /\ \/ newState \in ImmediateStates
               \/ q.currentState \in ImmediateStates
               \/ DwellElapsed(q, t)
        q2 == IF shouldChangeState
              THEN [q EXCEPT !.currentState = newState, !.lastStateChange = t]
              ELSE q
    IN  [pet |-> q2, ret |-> newState,
         save |-> shouldChangeState /\ (t - q2.lastStateChange) > 60000]

----------------------------------------------------------------------------
(* Node discovery *)

analyzeNodeDiscoveryNoBaseline(p, totalNodeCount, previousNodeCount) ==
    IF p.isSendingMessage THEN SENDING_INTERFERENCE
    ELSE IF totalNodeCount > previousNodeCount THEN NEW_NODE_DISCOVERED
    ELSE IF totalNodeCount # previousNodeCount THEN NODE_COUNT_CHANGED
    ELSE NODE_COUNT_UNCHANGED

(* NodeDiscoveryType LoRabotModule::analyzeNodeDiscovery(total, previous) *)
analyzeNodeDiscovery(p, totalNodeCount, previousNodeCount) ==
    IF previousNodeCount = 0 THEN FIRST_BOOT_DETECTION
    ELSE IF p.isSendingMessage THEN SENDING_INTERFERENCE
    ELSE IF totalNodeCount > previousNodeCount THEN NEW_NODE_DISCOVERED
    ELSE IF totalNodeCount # previousNodeCount THEN NODE_COUNT_CHANGED
    ELSE NODE_COUNT_UNCHANGED

analyzeNodeDiscoveryDirectionIncreaseOnly(p, totalNodeCount, previousNodeCount) ==
    LET ty == analyzeNodeDiscovery(p, totalNodeCount, previousNodeCount)
    IN  [discoveryType |-> ty,
         shouldTriggerHappy |-> ty = NEW_NODE_DISCOVERED,
         shouldUpdateCount |-> ty \in {NEW_NODE_DISCOVERED, FIRST_BOOT_DETECTION}]

(* NodeDiscoveryAnalysis LoRabotModule::analyzeNodeDiscoveryDirection(total, previous) *)
analyzeNodeDiscoveryDirection(p, totalNodeCount, previousNodeCount) ==
    LET ty == analyzeNodeDiscovery(p, totalNodeCount, previousNodeCount)
    IN  [discoveryType |-> ty,
         shouldTriggerHappy |-> ty = NEW_NODE_DISCOVERED,
         shouldUpdateCount |-> ty \in {NEW_NODE_DISCOVERED, NODE_COUNT_CHANGED,
                                       FIRST_BOOT_DETECTION}]

NodeDiscoveryCheckAlwaysCounts(p, total, t) ==
    LET an == analyzeNodeDiscoveryDirection(p, total, p.currentNodeCount)
        p1 == processNetworkEvent([p EXCEPT !.currentNodeCount = U8(total)], t)
    IN  IF an.shouldTriggerHappy
        THEN [p1 EXCEPT !.nodeDiscoveryTime = t,
                        !.showingNewNode = TRUE,
                        !.currentState = HAPPY,
                        !.lastStateChange = t]
        ELSE p1

(* lines 958-990 of executeNodeDiscoveryCheck(): the check proper *)
NodeDiscoveryCheck(p, total, t) ==
    LET an == analyzeNodeDiscoveryDirection(p, total, p.currentNodeCount)
        p1 == IF an.shouldUpdateCount
              THEN processNetworkEvent([p EXCEPT !.currentNodeCount = U8(total)], t)
              ELSE p
    IN  IF an.shouldTriggerHappy
        THEN [p1 EXCEPT !.nodeDiscoveryTime = t,
                        !.showingNewNode = TRUE,
                        !.currentState = HAPPY,
                        !.lastStateChange = t]
        ELSE p1

SenderDetectionAnyIncrease(p, ss, tx, t) ==
    IF (t - ss.lastTxGoodCheck) > 750
    THEN LET ss1 == [ss EXCEPT !.lastTxGoodCheck = t]
         IN  IF ~p.inSenderState /\ ~p.isSendingMessage /\ tx > p.lastTxGoodCount
             THEN [pet |-> [triggerSenderState(p, t) EXCEPT !.lastTxGoodCount = tx],
                   ss |-> ss1]
             ELSE [pet |-> p, ss |-> ss1]
    ELSE [pet |-> p, ss |-> ss]

(* lines 831-862 of executeSenderDetection() *)
SenderDetection(p, ss, tx, t) ==
    IF (t - ss.lastTxGoodCheck) > 750
    THEN LET ss1 == [ss EXCEPT !.lastTxGoodCheck = t]
         IN  IF ~p.inSenderState /\ ~p.isSendingMessage /\ tx > p.lastTxGoodCount
             THEN LET txIncrease == tx - p.lastTxGoodCount
                      p1 == IF p.pendingSenderTrigger /\ (t - p.lastTextMessageTxTime) < 500
                            THEN triggerSenderState(p, t)
                            ELSE IF ~p.pendingSenderTrigger /\ txIncrease = 1
                            THEN triggerSenderState(p, t)
                            ELSE p
                  IN  [pet |-> [p1 EXCEPT !.lastTxGoodCount = tx], ss |-> ss1]
             ELSE [pet |-> p, ss |-> ss1]
    ELSE [pet |-> p, ss |-> ss]

SendingTimeout == 5000        \* the safety timeout of isSendingMessage

(* lines 881-890 of executeDisplayUpdate() *)
DisplayUpdate(p, t) ==
    LET p1 == IF p.showingNewNode /\ (t - p.nodeDiscoveryTime) > 10000
              THEN [p EXCEPT !.showingNewNode = FALSE] ELSE p
    IN  IF p1.isSendingMessage /\ (t - p1.senderStartTime) > SendingTimeout
        THEN [p1 EXCEPT !.isSendingMessage = FALSE] ELSE p1

----------------------------------------------------------------------------
(* Persistence *)

EmptyPrefs ==
    [state |-> Absent, lastActivity |-> Absent, friendCount |-> Absent,
     friendsLen |-> 0, friends |-> << >>]

SavedBlobLenCountOnly(p) == p.friendCount

(* the byte length saveState() gives the "friends" blob *)
SavedBlobLen(p) == FriendNodeSize * p.friendCount

(* void LoRabotModule::saveState() *)
saveState(p, pr) ==
    LET pr1 == [pr EXCEPT !.state = p.currentState,
                          !.lastActivity = p.lastActivityTime,
                          !.friendCount = p.friendCount]
    IN  IF p.friendCount > 0
        THEN [pr1 EXCEPT !.friendsLen = SavedBlobLen(p),
                         !.friends = [i \in 1..(SavedBlobLen(p) \div FriendNodeSize)
                                          |-> p.friends[i - 1]]]
        ELSE pr1

(* schLen == sizeof(FriendNode) * friendCount *)
BlobLenMatches(schLen, fc) == schLen = FriendNodeSize * fc

loadStateFriendsOnly(p, pr, t) ==
    LET la == IF pr.lastActivity = Absent THEN t ELSE pr.lastActivity
        fc == IF pr.friendCount = Absent THEN 0 ELSE pr.friendCount
        p1 == [p EXCEPT !.lastActivityTime = la, !.friendCount = fc]
    IN  IF fc > 0 /\ fc <= MAX_FRIENDS
        THEN IF BlobLenMatches(pr.friendsLen, fc)
             THEN [p1 EXCEPT !.friends =
                      [i \in 0..(MAX_FRIENDS - 1) |->
                          IF i < pr.friendsLen \div FriendNodeSize
                          THEN pr.friends[i + 1] ELSE p.friends[i]]]
             ELSE [p1 EXCEPT !.friendCount = 0]
        ELSE p1

(* void LoRabotModule::loadState() *)
loadState(p, pr, t) ==
    LET st == IF pr.state = Absent THEN AWAKE ELSE pr.state
        la == IF pr.lastActivity = Absent THEN t ELSE pr.lastActivity
        fc == IF pr.friendCount = Absent THEN 0 ELSE pr.friendCount
        p1 == [p EXCEPT !.currentState = st, !.lastActivityTime = la,
                        !.friendCount = fc]
    IN  IF fc > 0 /\ fc <= MAX_FRIENDS
        THEN IF BlobLenMatches(pr.friendsLen, fc)
             THEN [p1 EXCEPT !.friends =
                      [i \in 0..(MAX_FRIENDS - 1) |->
                          IF i < pr.friendsLen \div FriendNodeSize
                          THEN pr.friends[i + 1] ELSE p.friends[i]]]
             ELSE [p1 EXCEPT !.friendCount = 0]
        ELSE p1

(* void LoRabotModule::initializeStepState() *)
initializeStepState(t) ==
    [currentStep |-> STEP_PET_STATE_UPDATE, lastYieldTime |-> t,
     nodeCheckCounter |-> 0, lastTxGoodCheck |-> 0]

(* LoRabotModule::LoRabotModule(), before loadState(); r is random(2000, 4000) *)
Constructed(t, r) ==
    [currentState |-> AWAKE, lastActivityTime |-> t, lastStateChange |-> t,
     currentNodeCount |-> 0, friendCount |-> 0,
     friends |-> [i \in 0..(MAX_FRIENDS - 1) |-> EmptyFriend],
     nodeDiscoveryTime |-> 0, showingNewNode |-> FALSE,
     excitedStartTime |-> 0, inExcitedState |-> FALSE,
     showingMessagePopup |-> FALSE, messagePopupTime |-> 0,
     funnyMessageIndex |-> 0,
     inBlinkState |-> FALSE, blinkStartTime |-> 0, nextBlinkTime |-> t + r,
     inSenderState |-> FALSE, senderStartTime |-> 0, senderMessageIndex |-> 0,
     isSendingMessage |-> FALSE,
     inSleepyState |-> FALSE, lastSleepyCycleTime |-> 0, currentSleepyFace |-> FALSE,
     lastTxGoodCount |-> 0, lastTextMessageTxTime |-> 0,
     pendingSenderTrigger |-> FALSE,
     lookingCycle |-> 0, lastFaceAnimationTime |-> 0, lastFunnyMessageTime |-> 0]

----------------------------------------------------------------------------
(* Inputs *)

(* values random(2000, 5000) can give (the upper end is exclusive) *)
BlinkIntervals == {2000, 4999}

(* values random(2000, 4000) can give in the constructor *)
FirstBlinkIntervals == {2000, 3999}

(* totals the node directory reports *)
NodeCounts == {0, 1, 2, 257}

(* what the "lorabot" namespace holds when the module is constructed *)
StateOnly(st) == [EmptyPrefs EXCEPT !.state = st, !.lastActivity = 0, !.friendCount = 0]

(* Spec boots a device that has never saved a snapshot *)
BootSnapshots == {EmptyPrefs}

(* inbound packets: wantPacket() lets text and position packets through *)
Packet(f, to, port, hs, hl) ==
    [from |-> f, to |-> to, portnum |-> port, hop_start |-> hs, hop_limit |-> hl]

NoPacket == Packet(0, 0, 0, 0, 0)

(* one packet of every kind the handler can tell apart *)
Packets ==
    {Packet(21, MyNodeNum, TEXT_MESSAGE_APP, 3, 3),            \* direct to me
     Packet(21, NODENUM_BROADCAST, TEXT_MESSAGE_APP, 3, 3),    \* broadcast, first hop
     Packet(21, NODENUM_BROADCAST, TEXT_MESSAGE_APP, 3, 2),    \* broadcast, relayed
     Packet(21, 22, TEXT_MESSAGE_APP, 3, 3),                   \* between two others
     Packet(MyNodeNum, NODENUM_BROADCAST, TEXT_MESSAGE_APP, 3, 3),
     Packet(MyNodeNum, 22, TEXT_MESSAGE_APP, 3, 3),
     Packet(0, MyNodeNum, TEXT_MESSAGE_APP, 3, 3),             \* no sender id
     Packet(21, NODENUM_BROADCAST, POSITION_APP, 3, 3)}

(* a snapshot with n friends 31, 32, ...; the first one was met 255 times *)
FriendSnapshot(n, st) ==
    [state |-> st, lastActivity |-> 0, friendCount |-> n,
     friendsLen |-> FriendNodeSize * n,
     friends |-> [i \in 1..n |->
                     [nodeId |-> 30 + i,
                      encounters |-> IF i = 1 THEN 255 ELSE i,
                      lastSeen |-> 0]]]

PersistSnapshots ==
    {EmptyPrefs, StateOnly(SLEEPY1), FriendSnapshot(7, SENDER), FriendSnapshot(8, HAPPY)}

(* packets from a sender in the snapshots, from two new ones, from nobody *)
FriendPackets ==
    {Packet(f, NODENUM_BROADCAST, TEXT_MESSAGE_APP, 3, 3) : f \in {0, 21, 22, 31}}

(* the instants at which SpecPersist lets a packet arrive *)
FriendRxTimes == {0, 1060}

(* the instants at which the scenario of Spec lets the environment act *)
RxTimes == {3060, 3120, 4120, 5000}
TxTimes == {3000, 5000}
NodeChangeTimes == {4000, 6000}
BootTxTimes == {1060}

(* the fields of the object a snapshot is taken from *)
Snapshot(p) ==
    [state |-> p.currentState, friendCount |-> p.friendCount,
     friends |-> [i \in 0..(p.friendCount - 1) |-> p.friends[i]]]

NoSnapshot == [state |-> Absent, friendCount |-> 0, friends |-> << >>]

(* no classifier has been called on its own yet *)
NoAnalysis == [of |-> "none"]

(* no node check has been made yet *)
NoChecks == [last |-> [type |-> Absent, total |-> 0],
             before |-> [type |-> Absent, total |-> 0]]

(* a charged battery *)
FullBattery == 100

(* static uint32_t lastFaceUpdateTime = 0, lastSenderMessageUpdate = 0 in   *)
(* drawFrame(); its other statics (lastDrawTime, cachedStatusLine and the   *)
(* favourite-count cache) only select what is drawn                         *)
NoFrameDrawn == [lastFaceUpdateTime |-> 0, lastSenderMessageUpdate |-> 0]

----------------------------------------------------------------------------
(* The earlier draft of the module, which has the state INTENSE: the fields *)
(* messageTimes, messageIndex, inIntenseState and intenseStartTime, and the *)
(* code that reads or writes them.                                          *)

INTENSE == 9                  \* enum PetState of the draft

(* the constructor of the draft: memset(messageTimes, 0), messageIndex = 0, *)
(* inIntenseState = false, intenseStartTime = 0                             *)
DraftConstructed ==
    [messageTimes |-> [i \in 0..4 |-> 0], messageIndex |-> 0,
     inIntenseState |-> FALSE, intenseStartTime |-> 0,
     arrivals |-> <<>>]       \* history: when each text or position packet came

(* messageTimes[i] > fiveSecondsAgo, with uint32_t fiveSecondsAgo = now -   *)
(* 5000: below 5000 ms of uptime the subtraction wraps to 2^32 - (5000 -    *)
(* now), which no time of the modelled runs exceeds                         *)
AfterFiveSecondsAgo(m, t) == IF t >= 5000 THEN m > t - 5000 ELSE FALSE

(* bool LoRabotModule::shouldTriggerIntense() of the draft *)
shouldTriggerIntense(d, t) ==
    Cardinality({i \in 0..4 : AfterFiveSecondsAgo(d.messageTimes[i], t)}) > 3

(* handleReceived() of the draft, the part on the INTENSE fields *)
draftHandleReceived(d, portnum, t) ==
    IF portnum = TEXT_MESSAGE_APP \/ portnum = POSITION_APP
    THEN LET d1 == [d EXCEPT !.messageTimes[d.messageIndex] = t,
                             !.messageIndex = (d.messageIndex + 1) % 5]
         IN  IF shouldTriggerIntense(d1, t) /\ ~d1.inIntenseState
             THEN [d1 EXCEPT !.inIntenseState = TRUE, !.intenseStartTime = t]
             ELSE d1
    ELSE d

(* calculateNewState() of the draft, the branch of INTENSE *)
IntenseBranch(d, t) ==
    IF d.inIntenseState
    THEN IF (t - d.intenseStartTime) \div 1000 < 3
         THEN [draft |-> d, done |-> TRUE, ret |-> INTENSE]
         ELSE [draft |-> [d EXCEPT !.inIntenseState = FALSE],
               done |-> FALSE, ret |-> Absent]
    ELSE [draft |-> d, done |-> FALSE, ret |-> Absent]

----------------------------------------------------------------------------
(* The model's state after LoRabotModule() ran at time 0 on the snapshot in *)
(* prefs.                                                                   *)
InitWith(snapshots, counts) ==
    /\ prefs \in snapshots
    /\ \E r \in FirstBlinkIntervals : pet = loadState(Constructed(0, r), prefs, 0)
    /\ stepState = initializeStepState(0)
    /\ now = 0
    /\ nextRunAt = 1000             \* setIntervalFromNow(1000)
    /\ numMeshNodes \in counts
    /\ txGood = 0
    /\ alive = TRUE
    /\ rxCount = 0
    /\ boots = 1
    /\ lastOp = "LoRabotModule"
    /\ lastRx = NoPacket
    /\ calcRet = Absent
    /\ calcAt = 0
    /\ savedFrom = NoSnapshot
    /\ analysis = NoAnalysis
    /\ batteryChargePercent = FullBattery
    /\ drawStatics = NoFrameDrawn
    /\ draft = DraftConstructed
    /\ nodeChecks = NoChecks

Init == InitWith(BootSnapshots, {1})

(* The clock: the run is sampled at the instants 1000k, 1000k+60, 1000k+120. *)
(* The host calls a due runOnce() before the clock moves on.                 *)
Tick(horizon) ==
    /\ now < horizon
    /\ ~(alive /\ now >= nextRunAt)
    /\ now' = IF (now % 1000) + 60 <= FineSpan
              THEN now + 60 ELSE (now \div 1000 + 1) * 1000
    /\ now' <= horizon
    /\ lastOp' = "Tick"
    /\ UNCHANGED <<pet, stepState, nextRunAt, numMeshNodes, txGood, prefs, alive,
                   rxCount, boots, lastRx, calcRet, calcAt, savedFrom, analysis,
                   batteryChargePercent, drawStatics, draft, nodeChecks>>

(* the node directory gains or loses entries *)
NodeDBChange(times) ==
    /\ now \in times
    /\ \E n \in NodeCounts \ {numMeshNodes} : numMeshNodes' = n
    /\ lastOp' = "NodeDBChange"
    /\ UNCHANGED <<pet, stepState, now, nextRunAt, txGood, prefs, alive,
                   rxCount, boots, lastRx, calcRet, calcAt, savedFrom, analysis,
                   batteryChargePercent, drawStatics, draft, nodeChecks>>

(* the radio completes k transmissions *)
TxGoodInc(times) ==
    /\ now \in times
    /\ \E k \in {1, 2} : txGood + k <= MaxTx /\ txGood' = txGood + k
    /\ lastOp' = "TxGoodInc"
    /\ UNCHANGED <<pet, stepState, now, nextRunAt, numMeshNodes, prefs, alive,
                   rxCount, boots, lastRx, calcRet, calcAt, savedFrom, analysis,
                   batteryChargePercent, drawStatics, draft, nodeChecks>>

(* handleReceived(mp), called by the router between two runOnce() calls *)
HandleReceived(packets, times, max) ==
    /\ alive
    /\ now \in times
    /\ rxCount < max
    /\ \E mp \in packets :
          pet' \in handleReceivedOutcomes(pet, mp, now) /\ lastRx' = mp
    /\ rxCount' = rxCount + 1
    /\ lastOp' = "handleReceived"
    /\ UNCHANGED <<stepState, now, nextRunAt, numMeshNodes, txGood, prefs, alive,
                   boots, calcRet, calcAt, savedFrom, analysis,
                   batteryChargePercent, drawStatics, draft, nodeChecks>>

----------------------------------------------------------------------------
(* runOnce() *)

CanRun == alive /\ now >= nextRunAt

OverYieldTime == (now - stepState.lastYieldTime) > MAX_STEP_TIME_MS

StepEndAdvance(ss, d, next) ==
    /\ now + d <= MaxClock
    /\ now' = now + d
    /\ stepState' = [ss EXCEPT !.currentStep = next]
    /\ nextRunAt' = IF d > MAX_STEP_TIME_MS THEN now' + getUpdateInterval ELSE now'

(* the tail every execute*() step shares; d is the time the step took: over  *)
(* budget, return the interval and keep the cursor; otherwise move the       *)
(* cursor and return 0                                                       *)
StepEnd(ss, d, next) ==
    /\ now + d <= MaxClock
    /\ now' = now + d
    /\ IF d > MAX_STEP_TIME_MS
       THEN stepState' = ss /\ nextRunAt' = now' + getUpdateInterval
       ELSE stepState' = [ss EXCEPT !.currentStep = next] /\ nextRunAt' = now'

(* lines 164-167: too long since the last yield *)
RunOnceYield ==
    /\ CanRun /\ OverYieldTime
    /\ stepState' = [stepState EXCEPT !.lastYieldTime = now]
    /\ nextRunAt' = now + getUpdateInterval
    /\ lastOp' = "runOnceYield"
    /\ UNCHANGED <<pet, now, numMeshNodes, txGood, prefs, alive, rxCount, boots,
                   lastRx, calcRet, calcAt, savedFrom, analysis,
                   batteryChargePercent, drawStatics, draft, nodeChecks>>

(* int32_t LoRabotModule::executePetStateUpdate() *)
ExecutePetStateUpdate(durs) ==
    /\ CanRun /\ ~OverYieldTime
    /\ stepState.currentStep = STEP_PET_STATE_UPDATE
    /\ \E r \in BlinkIntervals, d \in durs :
          LET u == updatePetState(pet, now, r)
          IN  /\ pet' = u.pet
              /\ calcRet' = u.ret
              /\ prefs' = IF u.save THEN saveState(u.pet, prefs) ELSE prefs
              /\ savedFrom' = IF u.save THEN Snapshot(u.pet) ELSE savedFrom
              /\ StepEnd(stepState, d, STEP_NODE_DISCOVERY_CHECK)
    /\ calcAt' = now
    /\ lastOp' = "executePetStateUpdate"
    /\ UNCHANGED <<numMeshNodes, txGood, alive, rxCount, boots, lastRx, analysis,
                   batteryChargePercent, drawStatics, draft, nodeChecks>>

(* int32_t LoRabotModule::executeNodeDiscoveryCheck() *)
ExecuteNodeDiscoveryCheck(durs) ==
    /\ CanRun /\ ~OverYieldTime
    /\ stepState.currentStep = STEP_NODE_DISCOVERY_CHECK
    /\ LET n == U8(stepState.nodeCheckCounter + 1)
       IN  IF n < 4
           THEN /\ pet' = pet
                /\ StepEnd([stepState EXCEPT !.nodeCheckCounter = n], 0,
                           STEP_SENDER_DETECTION)
                /\ lastOp' = "executeNodeDiscoveryCheck:skip"
                /\ nodeChecks' = nodeChecks
           ELSE /\ pet' = NodeDiscoveryCheck(pet, numMeshNodes, now)
                /\ \E d \in durs :
                      StepEnd([stepState EXCEPT !.nodeCheckCounter = 0], d,
                              STEP_SENDER_DETECTION)
                /\ lastOp' = "executeNodeDiscoveryCheck"
                /\ nodeChecks' =
                      [last |-> [type |-> analyzeNodeDiscovery(pet, numMeshNodes,
                                                  pet.currentNodeCount),
                                 total |-> numMeshNodes],
                       before |-> nodeChecks.last]
    /\ UNCHANGED <<numMeshNodes, txGood, prefs, alive, rxCount, boots, lastRx,
                   calcRet, calcAt, savedFrom, analysis,
                   batteryChargePercent, drawStatics, draft>>

(* int32_t LoRabotModule::executeSenderDetection() *)
ExecuteSenderDetection(durs) ==
    /\ CanRun /\ ~OverYieldTime
    /\ stepState.currentStep = STEP_SENDER_DETECTION
    /\ LET sd == SenderDetection(pet, stepState, txGood, now)
       IN  /\ pet' = sd.pet
           /\ \E d \in durs : StepEnd(sd.ss, d, STEP_DISPLAY_UPDATE)
    /\ lastOp' = "executeSenderDetection"
    /\ UNCHANGED <<numMeshNodes, txGood, prefs, alive, rxCount, boots, lastRx,
                   calcRet, calcAt, savedFrom, analysis,
                   batteryChargePercent, drawStatics, draft, nodeChecks>>

ExecuteDisplayUpdateSkip(durs) ==
    /\ CanRun /\ ~OverYieldTime
    /\ stepState.currentStep = STEP_DISPLAY_UPDATE
    /\ pet' = DisplayUpdate(pet, now)
    /\ \E d \in durs : StepEnd(stepState, d, STEP_CLEANUP)
    /\ lastOp' = "executeDisplayUpdate"
    /\ UNCHANGED <<numMeshNodes, txGood, prefs, alive, rxCount, boots, lastRx,
                   calcRet, calcAt, savedFrom, analysis,
                   batteryChargePercent, drawStatics, draft, nodeChecks>>

(* int32_t LoRabotModule::executeDisplayUpdate() *)
ExecuteDisplayUpdate(durs) ==
    /\ CanRun /\ ~OverYieldTime
    /\ stepState.currentStep = STEP_DISPLAY_UPDATE
    /\ pet' = DisplayUpdate(pet, now)
    /\ \E d \in durs : StepEnd(stepState, d, STEP_MESSAGE_PROCESSING)
    /\ lastOp' = "executeDisplayUpdate"
    /\ UNCHANGED <<numMeshNodes, txGood, prefs, alive, rxCount, boots, lastRx,
                   calcRet, calcAt, savedFrom, analysis,
                   batteryChargePercent, drawStatics, draft, nodeChecks>>

(* int32_t LoRabotModule::executeMessageProcessing() *)
ExecuteMessageProcessing(durs) ==
    /\ CanRun /\ ~OverYieldTime
    /\ stepState.currentStep = STEP_MESSAGE_PROCESSING
    /\ \E d \in durs : StepEnd(stepState, d, STEP_CLEANUP)
    /\ lastOp' = "executeMessageProcessing"
    /\ UNCHANGED <<pet, numMeshNodes, txGood, prefs, alive, rxCount, boots,
                   lastRx, calcRet, calcAt, savedFrom, analysis,
                   batteryChargePercent, drawStatics, draft, nodeChecks>>

(* int32_t LoRabotModule::executeCleanup() *)
ExecuteCleanup(durs) ==
    /\ CanRun /\ ~OverYieldTime
    /\ stepState.currentStep = STEP_CLEANUP
    /\ \E d \in durs : StepEnd(stepState, d, STEP_YIELD)
    /\ lastOp' = "executeCleanup"
    /\ UNCHANGED <<pet, numMeshNodes, txGood, prefs, alive, rxCount, boots,
                   lastRx, calcRet, calcAt, savedFrom, analysis,
                   batteryChargePercent, drawStatics, draft, nodeChecks>>

(* case STEP_YIELD of runOnce() *)
StepYield ==
    /\ CanRun /\ ~OverYieldTime
    /\ stepState.currentStep = STEP_YIELD
    /\ stepState' = [stepState EXCEPT !.currentStep = STEP_PET_STATE_UPDATE,
                                      !.lastYieldTime = now]
    /\ nextRunAt' = now + getUpdateInterval
    /\ lastOp' = "stepYield"
    /\ UNCHANGED <<pet, now, numMeshNodes, txGood, prefs, alive, rxCount, boots,
                   lastRx, calcRet, calcAt, savedFrom, analysis,
                   batteryChargePercent, drawStatics, draft, nodeChecks>>

(* int32_t LoRabotModule::runOnce(), every step within its budget *)
RunOnce ==
    \/ RunOnceYield
    \/ ExecutePetStateUpdate({0})
    \/ ExecuteNodeDiscoveryCheck({0})
    \/ ExecuteSenderDetection({0})
    \/ ExecuteDisplayUpdate({0})
    \/ ExecuteMessageProcessing({0})
    \/ ExecuteCleanup({0})
    \/ StepYield

(* One boot: the scheduler's passes, with a blink, a transmission, a change *)
(* of the node directory and an inbound packet falling in the first seconds *)
Next ==
    \/ Tick(MaxTime)
    \/ NodeDBChange(NodeChangeTimes)
    \/ TxGoodInc(TxTimes)
    \/ HandleReceived(Packets, RxTimes, MaxRx)
    \/ RunOnce

Spec == Init /\ [][Next]_vars

----------------------------------------------------------------------------
(* Teardown and the next boot *)

(* LoRabotModule::~LoRabotModule() *)
Destroy ==
    /\ alive
    /\ prefs' = saveState(pet, prefs)
    /\ savedFrom' = Snapshot(pet)
    /\ alive' = FALSE
    /\ lastOp' = "~LoRabotModule"
    /\ UNCHANGED <<pet, stepState, now, nextRunAt, numMeshNodes, txGood, rxCount,
                   boots, lastRx, calcRet, calcAt, analysis,
                   batteryChargePercent, drawStatics, draft, nodeChecks>>

(* LoRabotModule::LoRabotModule() on the next boot: millis() restarts at 0 *)
Construct ==
    /\ ~alive
    /\ boots < MaxBoots
    /\ \E r \in FirstBlinkIntervals : pet' = loadState(Constructed(0, r), prefs, 0)
    /\ stepState' = initializeStepState(0)
    /\ now' = 0
    /\ nextRunAt' = 1000
    /\ txGood' = 0
    /\ alive' = TRUE
    /\ boots' = boots + 1
    /\ lastOp' = "LoRabotModule"
    /\ calcRet' = Absent
    /\ calcAt' = 0
    /\ UNCHANGED <<numMeshNodes, prefs, rxCount, lastRx, savedFrom, analysis,
                   batteryChargePercent, drawStatics, draft, nodeChecks>>

InitPersist == InitWith(PersistSnapshots, {1})

(* Boots and teardowns over a stored friend list, with senders coming by *)
NextPersist ==
    \/ Tick(PersistHorizon)
    \/ HandleReceived(FriendPackets, FriendRxTimes, MaxFriendRx)
    \/ RunOnce
    \/ Destroy
    \/ Construct

SpecPersist == InitPersist /\ [][NextPersist]_vars

----------------------------------------------------------------------------
(* Construction over any snapshot the namespace can hold *)

(* a blob whose length is not sizeof(FriendNode) * friendCount *)
Mismatched(n, fc, len) ==
    [FriendSnapshot(n, AWAKE) EXCEPT !.friendCount = fc, !.friendsLen = len]

(* snapshots: none, well-formed ones, a count above the capacity with a     *)
(* blob of that length and with a shorter one, counts that the blob's       *)
(* length contradicts (a record short, a torn record, no blob), a stale     *)
(* blob under a count of 0, state bytes outside the enum                    *)
LoadSnapshots ==
    {EmptyPrefs, FriendSnapshot(2, GRATEFUL), FriendSnapshot(8, HAPPY),
     FriendSnapshot(9, AWAKE), Mismatched(2, 9, 24),
     Mismatched(2, 3, 24), Mismatched(2, 3, 30), Mismatched(0, 3, 0),
     Mismatched(2, 0, 24),
     StateOnly(11), StateOnly(200)}

(* packets from a stored friend, from a new sender, from nobody *)
BootPackets ==
    {Packet(f, NODENUM_BROADCAST, TEXT_MESSAGE_APP, 3, 3) : f \in {0, 21, 31}}

BootRxTimes == {0, 1060}

InitBoot == InitWith(LoadSnapshots, {1})

(* One boot over each snapshot: passes of the scheduler, senders coming by, *)
(* a transmission                                                           *)
NextBoot ==
    \/ Tick(BootHorizon)
    \/ HandleReceived(BootPackets, BootRxTimes, MaxRx)
    \/ TxGoodInc(BootTxTimes)
    \/ RunOnce

SpecBoot == InitBoot /\ [][NextBoot]_vars

----------------------------------------------------------------------------
(* Properties *)

(* the state a pass of updatePetState() has just left behind *)
Recomputed == lastOp = "executePetStateUpdate"

(* the cycle of pet.excitedStartTime was armed by the packet in lastRx *)
CycleArmed == rxCount > 0 /\ TriggersExcited(lastRx)

SleepActive == isNightTime \/ isLowBattery

NonReactive(mp) ==
    /\ mp.portnum = TEXT_MESSAGE_APP
    /\ \/ analyzeTextMessageDirection(mp).direction = TEXT_RELAYED
       \/ mp.from = MyNodeNum

(* C3: handling a packet that classifies as relayed, or that the local node  *)
(* sent, changes neither the current state nor the received/grateful timer.  *)
C3_OnlyReactiveTriggers ==
    [][(lastOp' = "handleReceived" /\ NonReactive(lastRx')) =>
          /\ pet'.currentState = pet.currentState
          /\ pet'.inExcitedState = pet.inExcitedState
          /\ pet'.excitedStartTime = pet.excitedStartTime]_vars

(* the step about to run is a node-count check that is not skipped *)
NodeCheckStep == lastOp' = "executeNodeDiscoveryCheck"

(* the check has triggered the discovered state *)
DiscoveredTriggered ==
    /\ pet'.showingNewNode
    /\ pet'.nodeDiscoveryTime = now
    /\ pet'.currentState = HAPPY

(* the check has left the discovered state and the current state alone *)
DiscoveredUntouched ==
    /\ pet'.showingNewNode = pet.showingNewNode
    /\ pet'.nodeDiscoveryTime = pet.nodeDiscoveryTime
    /\ pet'.currentState = pet.currentState

AboveDiscovered ==
    \/ BlinkActive(pet, calcAt)
    \/ SenderActive(pet, calcAt)
    \/ ExcitedActive(pet, calcAt)
    \/ SleepActive

(* C5: the check that triggers a discovery sets the state to HAPPY at once;  *)
(* with no higher-priority state active, every recompute less than 8 s after *)
(* the trigger returns and leaves HAPPY; no recompute at 8 s or later does.  *)
C5_DiscoveredWindow ==
    /\ (lastOp = "executeNodeDiscoveryCheck" /\ pet.showingNewNode
            /\ pet.nodeDiscoveryTime = now) =>
          pet.currentState = HAPPY
    /\ (Recomputed /\ pet.showingNewNode /\ ~AboveDiscovered
            /\ calcAt - pet.nodeDiscoveryTime < 8000) =>
          calcRet = HAPPY /\ pet.currentState = HAPPY
    /\ (Recomputed /\ (~pet.showingNewNode \/ calcAt - pet.nodeDiscoveryTime >= 8000)) =>
          calcRet # HAPPY /\ pet.currentState # HAPPY

(* the recompute exactly 8 s after a discovery, nothing above it active *)
C5_Witness ==
    /\ Recomputed
    /\ pet.showingNewNode
    /\ ~AboveDiscovered
    /\ calcAt - pet.nodeDiscoveryTime = 8000
    /\ calcRet # HAPPY

(* the step about to run is a state recompute *)
RecomputeStep == lastOp' = "executePetStateUpdate"

SleepStates == {SLEEPY1, SLEEPY2}

FriendHits(p, id) == {i \in 0..(p.friendCount - 1) : p.friends[i].nodeId = id}

(* C9: handling a packet from a sender already in the list adds 1 to that    *)
(* record's encounters and sets its lastSeen, adding no entry; a new sender  *)
(* is appended while fewer than 8 records exist and dropped, the list left   *)
(* as it was, once there are 8.                                              *)
C9_FriendList ==
    [][(lastOp' = "handleReceived" /\ lastRx'.from # 0) =>
          LET id == lastRx'.from
              hits == FriendHits(pet, id)
          IN  IF hits # {}
              THEN /\ pet'.friendCount = pet.friendCount
                   /\ \E i \in hits :
                         pet'.friends =
                             [pet.friends EXCEPT ![i].encounters = @ + 1,
                                                 ![i].lastSeen = now]
              ELSE IF pet.friendCount < 8
              THEN /\ pet'.friendCount = pet.friendCount + 1
                   /\ pet'.friends =
                         [pet.friends EXCEPT ![pet.friendCount] =
                             [nodeId |-> id, encounters |-> 1, lastSeen |-> now]]
              ELSE /\ pet'.friendCount = pet.friendCount
                   /\ pet'.friends = pet.friends]_vars

(* C10: the constructor that follows a teardown finds, after loadState(),    *)
(* the state byte, the friend count and the friend records that saveState()  *)
(* read from the object torn down.                                           *)
C10_RoundTrip ==
    (lastOp = "LoRabotModule" /\ boots > 1) => Snapshot(pet) = savedFrom

(* a boot that restored a full friend list and a state set by a packet *)
C10_Witness ==
    /\ lastOp = "LoRabotModule" /\ boots > 1
    /\ pet.friendCount = MAX_FRIENDS
    /\ pet.currentState = EXCITED
    /\ savedFrom.friendCount = MAX_FRIENDS

----------------------------------------------------------------------------
(* The classifiers on their own, over their whole input ranges *)

(* node numbers: none, this node, another node, the broadcast address *)
ClassifyFrom == {0, MyNodeNum, 21}
ClassifyTo == {0, MyNodeNum, 22, NODENUM_BROADCAST}
ClassifyPorts == {TEXT_MESSAGE_APP, POSITION_APP}
ClassifyHops == 0..MaxHop

(* node counts: the uint8_t previous count, the size_t total *)
ClassifyPrevious == 0..MaxCount
ClassifyTotals == 0..(MaxCount + 1)

(* analyzeTextMessageDirection(mp) called on a packet *)
AnalyzeTextMessageDirection ==
    /\ alive
    /\ \E f \in ClassifyFrom, t \in ClassifyTo, port \in ClassifyPorts,
          hs \in ClassifyHops, hl \in ClassifyHops :
          LET mp == Packet(f, t, port, hs, hl)
          IN  analysis' = [of |-> "analyzeTextMessageDirection", mp |-> mp,
                           direction |-> analyzeTextMessage(mp),
                           result |-> analyzeTextMessageDirection(mp)]
    /\ lastOp' = "analyzeTextMessageDirection"
    /\ UNCHANGED <<pet, stepState, now, nextRunAt, numMeshNodes, txGood, prefs,
                   alive, rxCount, boots, lastRx, calcRet, calcAt, savedFrom,
                   batteryChargePercent, drawStatics, draft, nodeChecks>>

(* analyzeNodeDiscoveryDirection(total, previous) and the check of         *)
(* executeNodeDiscoveryCheck() built on it, called on an object whose      *)
(* currentNodeCount is `previous` and whose isSendingMessage is `sending`  *)
AnalyzeNodeDiscoveryDirection ==
    /\ alive
    /\ \E total \in ClassifyTotals, previous \in ClassifyPrevious,
          sending \in BOOLEAN :
          LET p == [pet EXCEPT !.currentNodeCount = previous,
                               !.isSendingMessage = sending,
                               !.showingNewNode = FALSE]
          IN  analysis' = [of |-> "analyzeNodeDiscoveryDirection",
                           total |-> total, previous |-> previous,
                           sending |-> sending,
                           discoveryType |-> analyzeNodeDiscovery(p, total, previous),
                           result |-> analyzeNodeDiscoveryDirection(p, total, previous),
                           before |-> p,
                           after |-> NodeDiscoveryCheck(p, total, now)]
    /\ lastOp' = "analyzeNodeDiscoveryDirection"
    /\ UNCHANGED <<pet, stepState, now, nextRunAt, numMeshNodes, txGood, prefs,
                   alive, rxCount, boots, lastRx, calcRet, calcAt, savedFrom,
                   batteryChargePercent, drawStatics, draft, nodeChecks>>

NextClassify ==
    \/ AnalyzeTextMessageDirection
    \/ AnalyzeNodeDiscoveryDirection

SpecClassify == Init /\ [][NextClassify]_vars

----------------------------------------------------------------------------
(* The scheduler under a host that can be late and steps that can be slow *)

(* how many ms after the time runOnce() asked for the host calls it again *)
HostDelays == 0..MaxLate

(* the time one execute*() step can take: none, a millisecond, over budget *)
StepDurations == {0, 1, MAX_STEP_TIME_MS + 1}

(* OSThread waits for the delay runOnce() returned, then calls it again; *)
(* nothing else happens in between                                        *)
HostWait(delays, horizon) ==
    /\ alive
    /\ now < nextRunAt
    /\ \E l \in delays : now' = nextRunAt + l
    /\ now' <= horizon
    /\ UNCHANGED <<pet, stepState, nextRunAt, numMeshNodes, txGood, prefs, alive,
                   rxCount, boots, lastOp, lastRx, calcRet, calcAt, savedFrom, analysis,
                   batteryChargePercent, drawStatics, draft, nodeChecks>>

(* int32_t LoRabotModule::runOnce(), each step taking one of StepDurations *)
RunOnceTimed ==
    \/ RunOnceYield
    \/ ExecutePetStateUpdate(StepDurations)
    \/ ExecuteNodeDiscoveryCheck(StepDurations)
    \/ ExecuteSenderDetection(StepDurations)
    \/ ExecuteDisplayUpdate(StepDurations)
    \/ ExecuteMessageProcessing(StepDurations)
    \/ ExecuteCleanup(StepDurations)
    \/ StepYield

NextSched ==
    \/ HostWait(HostDelays, SchedHorizon)
    \/ RunOnceTimed

(* the host keeps calling: a due runOnce() is run, and the wait for the   *)
(* next one ends                                                          *)
SpecSched ==
    /\ Init
    /\ [][NextSched]_vars
    /\ WF_vars(HostWait(HostDelays, SchedHorizon))
    /\ WF_vars(RunOnceTimed)

----------------------------------------------------------------------------
(* The state update under a host that can stay away for a second *)

(* the host is busy elsewhere until the next full second: a runOnce() that *)
(* asked to be called before then is called late                           *)
TickLate(horizon) ==
    /\ now < horizon
    /\ ~(alive /\ now >= nextRunAt)
    /\ now' = (now \div 1000 + 1) * 1000
    /\ now' <= horizon
    /\ lastOp' = "Tick"
    /\ UNCHANGED <<pet, stepState, nextRunAt, numMeshNodes, txGood, prefs, alive,
                   rxCount, boots, lastRx, calcRet, calcAt, savedFrom, analysis,
                   batteryChargePercent, drawStatics, draft, nodeChecks>>

(* a text to this node, a broadcast relayed on its way *)
GatePackets ==
    {Packet(21, MyNodeNum, TEXT_MESSAGE_APP, 3, 3),
     Packet(21, NODENUM_BROADCAST, TEXT_MESSAGE_APP, 3, 2)}

GateRxTimes == {3060, 4060}
GateTxTimes == {4000}

NextGate ==
    \/ Tick(GateHorizon)
    \/ TickLate(GateHorizon)
    \/ HandleReceived(GatePackets, GateRxTimes, MaxRx)
    \/ TxGoodInc(GateTxTimes)
    \/ RunOnce

SpecGate == Init /\ [][NextGate]_vars

----------------------------------------------------------------------------
(* the friend records the constructor's loadState() copied into the array *)
LoadedRecords == {i \in 0..(MAX_FRIENDS - 1) : pet.friends[i] # EmptyFriend}

(* C11: after loadState(), whatever the snapshot, friendCount is at most    *)
(* MAX_FRIENDS and is the number of friend records loaded (a snapshot that  *)
(* breaks this leaves friendCount = 0); so friendCount <= MAX_FRIENDS in    *)
(* every reachable state.                                                   *)
C11_SnapshotInvariant ==
    /\ pet.friendCount <= MAX_FRIENDS
    /\ lastOp = "LoRabotModule" => pet.friendCount = Cardinality(LoadedRecords)

----------------------------------------------------------------------------
(* the blob's length contradicts the count the snapshot declares *)
LengthMismatch ==
    prefs.friendsLen #
        FriendNodeSize * (IF prefs.friendCount = Absent THEN 0 ELSE prefs.friendCount)

(* C12: when the byte length of the persisted friends blob is not           *)
(* sizeof(FriendNode) times the declared friendCount, loadState() leaves    *)
(* friendCount = 0 and copies no record.                                    *)
C12_CorruptDiscarded ==
    (lastOp = "LoRabotModule" /\ LengthMismatch)
        => (pet.friendCount = 0 /\ LoadedRecords = {})

----------------------------------------------------------------------------
(* the values of enum PetState *)
PetStates == AWAKE..SENDER

(* C13: after construction over any snapshot, and after every pass, packet  *)
(* and trigger that follow, currentState is one of the 11 values of         *)
(* PetState.                                                                *)
C13_OneOfEleven == pet.currentState \in PetStates

----------------------------------------------------------------------------
----------------------------------------------------------------------------
(* the steps that end with the budget test, and the cursor value of each *)
StepOps ==
    {"executePetStateUpdate", "executeNodeDiscoveryCheck", "executeSenderDetection",
     "executeDisplayUpdate", "executeMessageProcessing", "executeCleanup"}

StepOf(op) ==
    CASE op = "executePetStateUpdate" -> STEP_PET_STATE_UPDATE
      [] op = "executeNodeDiscoveryCheck" -> STEP_NODE_DISCOVERY_CHECK
      [] op = "executeSenderDetection" -> STEP_SENDER_DETECTION
      [] op = "executeDisplayUpdate" -> STEP_DISPLAY_UPDATE
      [] op = "executeMessageProcessing" -> STEP_MESSAGE_PROCESSING
      [] op = "executeCleanup" -> STEP_CLEANUP

(* this invocation of runOnce() ran a step that took more than the budget *)
SlowStep == RunOnceTimed /\ (now' - now) > MAX_STEP_TIME_MS

(* the last invocation of runOnce() ran a step and left the cursor on it *)
OverBudget == lastOp \in StepOps /\ stepState.currentStep = StepOf(lastOp)

----------------------------------------------------------------------------
(* the values of enum LoRabotStep and the order of the cycle *)
Steps == STEP_PET_STATE_UPDATE..STEP_YIELD

Successor(step) == IF step = STEP_YIELD THEN STEP_PET_STATE_UPDATE ELSE step + 1

----------------------------------------------------------------------------
(* Sent, Received, Grateful, Discovered *)
GatedStates == {SENDER, EXCITED, GRATEFUL, HAPPY}

(* C17: a pass of the state update that computes a state other than the    *)
(* current one applies it in that pass when the current or the computed     *)
(* state is Sent, Received, Grateful or Discovered, whatever the time since *)
(* the last change.                                                         *)
C17_ImmediateSet ==
    [][(/\ RecomputeStep
        /\ calcRet' # pet.currentState
        /\ (calcRet' \in GatedStates \/ pet.currentState \in GatedStates))
          => pet'.currentState = calcRet']_vars

----------------------------------------------------------------------------
Throttled(c) ==
    /\ c.ret # c.pet.currentState
    /\ c.ret \notin ImmediateStates
    /\ c.pet.currentState \notin ImmediateStates
    /\ (now - c.pet.lastStateChange) <= 5000

----------------------------------------------------------------------------
(* the reference rule for the direction of a text event *)
ReferenceDirection(mp) ==
    IF mp.from = MyNodeNum
    THEN (IF mp.to = NODENUM_BROADCAST THEN TEXT_BROADCAST_BY_ME
          ELSE MY_TEXT_TO_SOMEONE)
    ELSE IF mp.to = MyNodeNum /\ mp.to # NODENUM_BROADCAST THEN TEXT_TO_ME_DIRECT
    ELSE IF mp.to = NODENUM_BROADCAST /\ mp.hop_start = mp.hop_limit
    THEN TEXT_BROADCAST_BY_OTHER
    ELSE TEXT_RELAYED

(* the classifier was called on a text packet *)
TextAnalysed ==
    /\ analysis.of = "analyzeTextMessageDirection"
    /\ analysis.mp.portnum = TEXT_MESSAGE_APP

(* C19, first half: the direction of every text event is the one the      *)
(* reference rule gives.                                                   *)
C19_Direction ==
    TextAnalysed =>
        /\ analysis.direction = ReferenceDirection(analysis.mp)
        /\ analysis.result.direction = ReferenceDirection(analysis.mp)

(* C19, second half: shouldReact holds exactly for the directions          *)
(* TEXT_TO_ME_DIRECT and TEXT_BROADCAST_BY_OTHER.                          *)
C19_ShouldReact ==
    TextAnalysed =>
        (analysis.result.shouldReact <=>
            analysis.result.direction \in {TEXT_TO_ME_DIRECT, TEXT_BROADCAST_BY_OTHER})

(* C19: for every text event the direction is the one the reference rule   *)
(* gives (own broadcast, own direct, direct to me, first-hop broadcast of   *)
(* another node, relayed), and shouldReact holds exactly when the direction *)
(* is TEXT_TO_ME_DIRECT or TEXT_BROADCAST_BY_OTHER.                         *)
C19_Classifier == C19_Direction /\ C19_ShouldReact

----------------------------------------------------------------------------
(* the reference rule for the type of a node-count observation *)
ReferenceDiscovery(total, previous, sending) ==
    IF previous = 0 THEN FIRST_BOOT_DETECTION
    ELSE IF sending THEN SENDING_INTERFERENCE
    ELSE IF total > previous THEN NEW_NODE_DISCOVERED
    ELSE IF total # previous THEN NODE_COUNT_CHANGED
    ELSE NODE_COUNT_UNCHANGED

(* the types for which the stored count takes the total *)
CountingTypes == {NEW_NODE_DISCOVERED, NODE_COUNT_CHANGED, FIRST_BOOT_DETECTION}

(* C20: for every (total, previous, sending) the discovery type is the one  *)
(* the reference rule gives; the Discovered trigger (showingNewNode, HAPPY) *)
(* is set for NEW_NODE_DISCOVERED only; the stored count becomes the total  *)
(* for NEW_NODE_DISCOVERED, NODE_COUNT_CHANGED and FIRST_BOOT_DETECTION and *)
(* stays the previous count for the other two types.                        *)
C20_Discovery ==
    analysis.of = "analyzeNodeDiscoveryDirection" =>
        LET ty == ReferenceDiscovery(analysis.total, analysis.previous,
                                     analysis.sending)
        IN  /\ analysis.discoveryType = ty
            /\ analysis.result.discoveryType = ty
            /\ analysis.result.shouldTriggerHappy <=> ty = NEW_NODE_DISCOVERED
            /\ analysis.after.showingNewNode <=> ty = NEW_NODE_DISCOVERED
            /\ ty = NEW_NODE_DISCOVERED => analysis.after.currentState = HAPPY
            /\ ty # NEW_NODE_DISCOVERED =>
                  analysis.after.currentState = analysis.before.currentState
            /\ analysis.result.shouldUpdateCount <=> ty \in CountingTypes
            /\ analysis.after.currentNodeCount =
                  IF ty \in CountingTypes THEN U8(analysis.total)
                  ELSE analysis.previous

(* a lower total was seen while not sending: the count follows, no trigger *)
C20_Witness ==
    /\ analysis.of = "analyzeNodeDiscoveryDirection"
    /\ analysis.total < analysis.previous
    /\ analysis.total > 0
    /\ ~analysis.sending
    /\ analysis.discoveryType = NODE_COUNT_CHANGED
    /\ analysis.after.currentNodeCount = analysis.total
    /\ ~analysis.after.showingNewNode
----------------------------------------------------------------------------
(* the packet handled last is a text the direction classifier attributes to *)
(* the local node                                                           *)
LocalTextObserved ==
    /\ rxCount > 0
    /\ lastRx.portnum = TEXT_MESSAGE_APP
    /\ analyzeTextMessageDirection(lastRx).direction
           \in {MY_TEXT_TO_SOMEONE, TEXT_BROADCAST_BY_ME}

(* the sender-detection step about to run takes a counter sample, neither   *)
(* the sent state nor the sending flag being active                         *)
CounterSampled ==
    /\ lastOp' = "executeSenderDetection"
    /\ (now - stepState.lastTxGoodCheck) > 750
    /\ ~pet.inSenderState /\ ~pet.isSendingMessage

(* C21: a counter sample taken less than 500 ms after a text of the local    *)
(* node was handled, and finding the outbound-success counter above the      *)
(* baseline by any positive amount, triggers the sent state.                 *)
C21_CorrelationWindow ==
    [][(CounterSampled /\ LocalTextObserved
            /\ now - pet.messagePopupTime < 500
            /\ txGood > pet.lastTxGoodCount) =>
          /\ pet'.inSenderState
          /\ pet'.senderStartTime = now
          /\ pet'.currentState = SENDER]_vars

----------------------------------------------------------------------------
(* C22: the sender-detection step samples the counter only when more than    *)
(* 750 ms have passed since its last sample, and otherwise changes nothing.  *)
(* A sample taken while neither the sent state nor the sending flag is       *)
(* active and no window is armed triggers the sent state when the counter is *)
(* exactly one above the baseline, and does not when it is two or more       *)
(* above; in both cases the baseline becomes the sampled counter.  Any other *)
(* sample leaves the object as it was.                                       *)
C22_Fallback ==
    [][lastOp' = "executeSenderDetection" =>
          LET sampled == (now - stepState.lastTxGoodCheck) > 750
              free == ~pet.inSenderState /\ ~pet.isSendingMessage
                          /\ ~pet.pendingSenderTrigger
              increase == txGood - pet.lastTxGoodCount
          IN  /\ sampled => stepState'.lastTxGoodCheck = now
              /\ ~sampled =>
                    /\ pet' = pet
                    /\ stepState'.lastTxGoodCheck = stepState.lastTxGoodCheck
              /\ (sampled /\ free /\ increase = 1) =>
                    /\ pet'.inSenderState
                    /\ pet'.senderStartTime = now
                    /\ pet'.currentState = SENDER
                    /\ pet'.lastTxGoodCount = txGood
              /\ (sampled /\ free /\ increase >= 2) =>
                    pet' = [pet EXCEPT !.lastTxGoodCount = txGood]
              /\ (sampled /\ (~free \/ increase <= 0)) => pet' = pet]_vars

(* a sample that found the counter two above the baseline: the baseline has  *)
(* moved and the sent state was never triggered                              *)
C22_Witness ==
    /\ lastOp = "executeSenderDetection"
    /\ stepState.lastTxGoodCheck = now
    /\ txGood = 2
    /\ pet.lastTxGoodCount = 2
    /\ pet.senderStartTime = 0
    /\ ~pet.inSenderState

----------------------------------------------------------------------------
(* the last recompute got down to the look cycle: peers are known, no timer  *)
(* above the idle branch is active, and the cycle has advanced before       *)
LookCycleShown ==
    /\ Recomputed
    /\ pet.currentNodeCount > 0
    /\ pet.lastFaceAnimationTime > 0
    /\ ~AboveDiscovered
    /\ ~HappyActive(pet, calcAt)

(* C23: while peers are known and no higher-priority state is active, the    *)
(* state a recompute leaves is the face of the look cycle's position: the    *)
(* face of the last advance stays until the next advance, a second later.    *)
C23_LookCycle ==
    LookCycleShown => pet.currentState = LookFace(pet.lookingCycle)

----------------------------------------------------------------------------
(* no timer above the idle branch is active at the recompute about to run *)
NothingAboveIdle ==
    /\ ~BlinkActive(pet, now)
    /\ ~SenderActive(pet, now)
    /\ ~ExcitedActive(pet, now)
    /\ ~SleepActive
    /\ ~HappyActive(pet, now)

(* C24: a recompute that finds the node count at zero and nothing above the  *)
(* idle branch active returns AWAKE and leaves the state at AWAKE, leaves    *)
(* the look cycle's position and timer as they were, and starts no blink,    *)
(* even when one is due.                                                     *)
C24_ZeroPeers ==
    [][(RecomputeStep /\ pet.currentNodeCount = 0 /\ NothingAboveIdle) =>
          /\ calcRet' = AWAKE
          /\ pet'.currentState = AWAKE
          /\ pet'.lookingCycle = pet.lookingCycle
          /\ pet'.lastFaceAnimationTime = pet.lastFaceAnimationTime
          /\ ~pet'.inBlinkState
          /\ pet'.blinkStartTime = pet.blinkStartTime]_vars

(* a recompute with no peers left, a blink due and the look cycle away from  *)
(* its initial position                                                      *)
C24_Witness ==
    /\ Recomputed
    /\ pet.currentNodeCount = 0
    /\ calcAt >= pet.nextBlinkTime
    /\ ~pet.inBlinkState
    /\ calcAt - pet.lastFaceAnimationTime >= 1000
    /\ pet.lookingCycle # 0
    /\ calcRet = AWAKE

----------------------------------------------------------------------------
(* the recompute about to run finds a blink that has lasted 80 ms or more *)
BlinkCompletes == RecomputeStep /\ pet.inBlinkState /\ now - pet.blinkStartTime >= 80

(* the step about to run starts a blink *)
BlinkStarts == ~pet.inBlinkState /\ pet'.inBlinkState

----------------------------------------------------------------------------
(* The engine under a changing battery level *)

(* readings of the battery level: unknown, low, the threshold, charged *)
BatteryLevels == {0, 5, 9, 10, FullBattery}

(* the instants at which the reading changes *)
PowerTimes == {0, 2000}

PowerRxTimes == {1060}

(* the power status reports another battery level *)
BatteryChange(times) ==
    /\ now \in times
    /\ \E b \in BatteryLevels \ {batteryChargePercent} : batteryChargePercent' = b
    /\ lastOp' = "BatteryChange"
    /\ UNCHANGED <<pet, stepState, now, nextRunAt, numMeshNodes, txGood, prefs,
                   alive, rxCount, boots, lastRx, calcRet, calcAt, savedFrom,
                   analysis, drawStatics, draft, nodeChecks>>

(* One boot with the battery running low or recovering, and a text coming in *)
NextPower ==
    \/ Tick(PowerHorizon)
    \/ BatteryChange(PowerTimes)
    \/ HandleReceived(GatePackets, PowerRxTimes, MaxRx)
    \/ RunOnce

SpecPower == Init /\ [][NextPower]_vars

(* the reading is known and below 10 % *)
LowBatteryReading == batteryChargePercent > 0 /\ batteryChargePercent < 10

(* no blink, sent or received/grateful timer is active at the last recompute *)
NothingAboveSleep ==
    /\ ~BlinkActive(pet, calcAt)
    /\ ~SenderActive(pet, calcAt)
    /\ ~ExcitedActive(pet, calcAt)

(* C26: a recompute made while the night-time/low-battery condition holds    *)
(* and nothing above the sleep state is active returns a sleepy face and     *)
(* leaves the state at it: SLEEPY1 on entry and after every second toggle,   *)
(* SLEEPY2 after the others.                                                 *)
C26_SleepAlternation ==
    (Recomputed /\ (LowBatteryReading \/ isNightTime) /\ NothingAboveSleep) =>
        /\ calcRet = (IF pet.currentSleepyFace THEN SLEEPY2 ELSE SLEEPY1)
        /\ pet.currentState = calcRet
        /\ calcAt - pet.lastSleepyCycleTime < 2000

(* C27: a recompute at which the battery reading is non-zero and below 10 %  *)
(* and no blink, sent or received/grateful timer is active enters the sleep  *)
(* state; at a reading of 0 or of 10 % and more (and no night time) no       *)
(* recompute does.                                                           *)
C27_LowBattery ==
    /\ (Recomputed /\ LowBatteryReading /\ NothingAboveSleep) =>
          pet.inSleepyState /\ calcRet \in SleepStates
    /\ (Recomputed /\ ~LowBatteryReading /\ ~isNightTime) =>
          ~pet.inSleepyState /\ calcRet \notin SleepStates

----------------------------------------------------------------------------
(* no timed state is armed: the flags of the blink, sent, received/grateful, *)
(* sleep and discovered states and of the popup are clear                    *)
NoTimerActive ==
    /\ ~pet.inBlinkState
    /\ ~pet.inSenderState /\ ~pet.isSendingMessage /\ ~pet.pendingSenderTrigger
    /\ ~pet.inExcitedState /\ ~pet.showingMessagePopup
    /\ ~pet.inSleepyState
    /\ ~pet.showingNewNode

(* C28, as stated: when the constructor has run, over any snapshot, the      *)
(* current state is AWAKE and no timed state is active.                      *)
C28_StartsIdle ==
    lastOp = "LoRabotModule" => pet.currentState = AWAKE /\ NoTimerActive

(* C28, amended: when the constructor has run no timed state is active and   *)
(* the current state is the state byte of the stored snapshot, AWAKE if      *)
(* none is stored; when the destructor has run the namespace holds the       *)
(* state, the activity time, the friend count and the friend records of the  *)
(* object torn down.                                                         *)
C28_Lifecycle ==
    /\ lastOp = "LoRabotModule" =>
          /\ alive
          /\ NoTimerActive
          /\ pet.currentState = (IF prefs.state = Absent THEN AWAKE ELSE prefs.state)
    /\ lastOp = "~LoRabotModule" =>
          /\ ~alive
          /\ prefs.state = pet.currentState
          /\ prefs.lastActivity = pet.lastActivityTime
          /\ prefs.friendCount = pet.friendCount
          /\ pet.friendCount > 0 =>
                /\ prefs.friendsLen = FriendNodeSize * pet.friendCount
                /\ \A i \in 1..pet.friendCount : prefs.friends[i] = pet.friends[i - 1]

(* a boot that follows a teardown in the received state: EXCITED is current  *)
(* again, with no received/grateful cycle armed                              *)
C28_Witness ==
    /\ lastOp = "LoRabotModule"
    /\ boots > 1
    /\ prefs.state = EXCITED
    /\ pet.currentState = EXCITED
    /\ ~pet.inExcitedState

----------------------------------------------------------------------------
(* A boot that runs for more than a minute *)

(* a text to this node arrives after the first minute *)
LongPackets == {Packet(21, MyNodeNum, TEXT_MESSAGE_APP, 3, 3)}

LongRxTimes == {61060}

(* the look cycle and the blinks go on all the time; the text brings a      *)
(* change of state that updatePetState() applies itself                     *)
NextLong ==
    \/ Tick(LongHorizon)
    \/ HandleReceived(LongPackets, LongRxTimes, MaxRx)
    \/ RunOnce

SpecLong == Init /\ [][NextLong]_vars

(* the last recompute, made after the first minute, applied a change of     *)
(* state in updatePetState(), the place of the periodic save                *)
ChangeAppliedLate ==
    /\ Recomputed
    /\ calcAt > 60000
    /\ calcRet = GRATEFUL
    /\ pet.currentState = GRATEFUL
    /\ pet.lastStateChange = calcAt

(* C29: in a run without teardown that has lasted more than a minute, with   *)
(* the state changing all along, the snapshot has been written at least      *)
(* once by the time updatePetState() applies a change after the first        *)
(* minute.                                                                   *)
C29_PeriodicSave ==
    ChangeAppliedLate => (savedFrom # NoSnapshot /\ prefs # EmptyPrefs)

----------------------------------------------------------------------------
(* The render callback *)

(* const char* const LoRabotModule::FACES[11], indexed from 1 here *)
FACES ==
    <<"( o . o )", "( > . > )", "( < . < )", "( ^ - ^ )", "( * o * )",
      "( ~ o ~ )", "( ~ - ~ )", "( ^ o ^ )", "( - . - )", "( v _ v )",
      "(  ' . ')>">>

getCurrentFaceDemotivated(p) ==
    IF p.currentState >= 11 THEN FACES[DEMOTIVATED + 1]
    ELSE FACES[p.currentState + 1]

(* const char* LoRabotModule::getCurrentFace() *)
getCurrentFace(p) ==
    IF p.currentState >= 11 THEN FACES[AWAKE + 1]
    ELSE FACES[p.currentState + 1]

(* void LoRabotModule::drawFrame(): the face it draws and what it writes;   *)
(* the status-line cache changes nothing of the engine                      *)
drawFrame(p, ds, t) ==
    LET faceDue == (t - ds.lastFaceUpdateTime) > 1000
        rotate == /\ faceDue
                  /\ p.currentState = SENDER
                  /\ (t - ds.lastSenderMessageUpdate) > 2000
        ds1 == [lastFaceUpdateTime |->
                    IF faceDue THEN t ELSE ds.lastFaceUpdateTime,
                lastSenderMessageUpdate |->
                    IF rotate THEN t ELSE ds.lastSenderMessageUpdate]
        p1 == IF rotate
              THEN [p EXCEPT !.senderMessageIndex = (p.senderMessageIndex + 1) % 5]
              ELSE p
        p2 == IF p1.showingMessagePopup /\ (t - p1.messagePopupTime) < 6000
              THEN p1
              ELSE IF p1.showingMessagePopup
              THEN [p1 EXCEPT !.showingMessagePopup = FALSE]
              ELSE p1
    IN  [pet |-> p2, statics |-> ds1, face |-> getCurrentFace(p)]

(* the screen asks for the frame, between two calls of runOnce() or of      *)
(* handleReceived()                                                         *)
DrawFrame ==
    /\ alive
    /\ LET f == drawFrame(pet, drawStatics, now)
       IN  pet' = f.pet /\ drawStatics' = f.statics
    /\ lastOp' = "drawFrame"
    /\ UNCHANGED <<stepState, now, nextRunAt, numMeshNodes, txGood, prefs, alive,
                   rxCount, boots, lastRx, calcRet, calcAt, savedFrom, analysis,
                   batteryChargePercent, draft, nodeChecks>>

DrawRxTimes == {1060}
DrawTxTimes == {3000}

(* One boot with the screen drawing at any time: a text comes in, a packet  *)
(* goes out                                                                 *)
NextDraw ==
    \/ Tick(DrawHorizon)
    \/ HandleReceived(GatePackets, DrawRxTimes, MaxRx)
    \/ TxGoodInc(DrawTxTimes)
    \/ RunOnce
    \/ DrawFrame

SpecDraw == Init /\ [][NextDraw]_vars

(* C30: a call of drawFrame(), at any instant, leaves every field of the     *)
(* engine as it was: the current state, the timers, the caption and sender   *)
(* message indices, the popup flag.                                          *)
C30_RenderReadOnly ==
    [][lastOp' = "drawFrame" => pet' = pet]_vars

----------------------------------------------------------------------------
(* One boot over each snapshot, corrupted ones included, with the screen     *)
(* drawing at any time                                                       *)
NextFace ==
    \/ Tick(BootHorizon)
    \/ HandleReceived(BootPackets, BootRxTimes, MaxRx)
    \/ TxGoodInc(BootTxTimes)
    \/ RunOnce
    \/ DrawFrame

SpecFace == InitBoot /\ [][NextFace]_vars

(* currentState is not a value of PetState *)
OutOfRange == pet.currentState \notin PetStates

----------------------------------------------------------------------------
(* The caption of a discovery, over directories of the node database.  A C  *)
(* string is the sequence of its characters.                                *)

(* the most other nodes a directory lists besides the local node *)
MaxOthers == 2

MAX_DISPLAY_LENGTH == 24
HELLO_OVERHEAD == 7
MAX_NAME_LENGTH == MAX_DISPLAY_LENGTH - HELLO_OVERHEAD

(* sizeof(analysis.nodeName) and sizeof(lastNodeName) *)
NodeNameSize == 32

(* the first n characters of s: strncpy(dst, s, n); dst[n] = 0, and what    *)
(* snprintf(dst, n + 1, ...) keeps                                          *)
Truncated(s, n) == SubSeq(s, 1, IF Len(s) < n THEN Len(s) ELSE n)

HexDigit(d) ==
    <<"0", "1", "2", "3", "4", "5", "6", "7", "8", "9",
      "a", "b", "c", "d", "e", "f">>[d + 1]

RECURSIVE Hex(_)
(* what %x prints *)
Hex(n) == IF n < 16 THEN <<HexDigit(n)>> ELSE Hex(n \div 16) \o <<HexDigit(n % 16)>>

(* "Hello %s!" *)
HelloName(name) == <<"H", "e", "l", "l", "o", " ">> \o name \o <<"!">>

(* "Hello Node 0x%x!" *)
HelloNode(num) ==
    <<"H", "e", "l", "l", "o", " ", "N", "o", "d", "e", " ", "0", "x">>
        \o Hex(num) \o <<"!">>

(* meshtastic_NodeInfoLite, the fields the module reads *)
NodeInfo(num, heard, has, long, short) ==
    [num |-> num, last_heard |-> heard, has_user |-> has,
     long_name |-> long, short_name |-> short]

NoNode == NodeInfo(0, 0, FALSE, <<>>, <<>>)

RECURSIVE ScanNewest(_, _, _, _)
(* the loop of lines 1051-1062 from index i on: the entry the scan ends     *)
(* with, NoNode standing for nullptr                                        *)
ScanNewest(nodes, i, newest, newestTime) ==
    IF i > Len(nodes) THEN newest
    ELSE IF nodes[i].num # MyNodeNum /\ nodes[i].last_heard > newestTime
    THEN ScanNewest(nodes, i + 1, nodes[i], nodes[i].last_heard)
    ELSE ScanNewest(nodes, i + 1, newest, newestTime)

(* lines 1046-1089 of analyzeNodeDiscoveryDirection(): analysis.nodeName of *)
(* a NEW_NODE_DISCOVERED analysis over the directory `nodes`                *)
newestNodeName(nodes) ==
    LET newestNode == ScanNewest(nodes, 1, NoNode, 0)
    IN  IF newestNode = NoNode THEN <<>>
        ELSE IF newestNode.has_user /\ Len(newestNode.long_name) > 0
        THEN Truncated(HelloName(Truncated(newestNode.long_name, MAX_NAME_LENGTH)),
                       NodeNameSize - 1)
        ELSE IF newestNode.has_user /\ Len(newestNode.short_name) > 0
        THEN Truncated(HelloName(Truncated(newestNode.short_name, MAX_NAME_LENGTH)),
                       NodeNameSize - 1)
        ELSE Truncated(HelloNode(newestNode.num), NodeNameSize - 1)

(* the local node's own entry; the directory lists it first *)
OwnNode == NodeInfo(MyNodeNum, 500, TRUE, <<"m", "e">>, <<"m">>)

(* other nodes: named, short name only, no user record, a long name of 18   *)
(* characters, and two entries no reception has time-stamped                *)
OtherNodes ==
    {NodeInfo(31, 100, TRUE, <<"A", "l", "i", "c", "e">>, <<"A", "L">>),
     NodeInfo(32, 200, TRUE, <<>>, <<"B", "2">>),
     NodeInfo(2748, 300, FALSE, <<>>, <<>>),
     NodeInfo(33, 150, TRUE,
              <<"a", "b", "c", "d", "e", "f", "g", "h", "i", "j", "k", "l",
                "m", "n", "o", "p", "q", "r">>, <<"L", "G">>),
     NodeInfo(21, 0, FALSE, <<>>, <<>>),
     NodeInfo(34, 0, TRUE, <<"Z", "e", "d">>, <<"Z">>)}

(* directories: the local node, then up to MaxOthers different other nodes *)
Directories ==
    {<<OwnNode>> \o s : s \in
        {s \in UNION {[1..n -> OtherNodes] : n \in 1..MaxOthers} :
            \A i, j \in 1..Len(s) : i # j => s[i] # s[j]}}

(* executeNodeDiscoveryCheck() on a directory, called on an object whose     *)
(* currentNodeCount is `previous` and whose isSendingMessage is `sending`:   *)
(* the analysis and the caption lastNodeName that the check leaves           *)
AnalyzeNodeCaption ==
    /\ alive
    /\ \E nodes \in Directories, previous \in ClassifyPrevious, sending \in BOOLEAN :
          LET p == [pet EXCEPT !.currentNodeCount = previous,
                               !.isSendingMessage = sending,
                               !.showingNewNode = FALSE]
              an == analyzeNodeDiscoveryDirection(p, Len(nodes), previous)
              nodeName == IF an.discoveryType = NEW_NODE_DISCOVERED
                          THEN newestNodeName(nodes) ELSE <<>>
          IN  analysis' = [of |-> "executeNodeDiscoveryCheck",
                           nodes |-> nodes, previous |-> previous,
                           sending |-> sending,
                           result |-> an,
                           nodeName |-> nodeName,
                           lastNodeName |->
                               IF an.shouldTriggerHappy
                               THEN Truncated(nodeName, NodeNameSize - 1)
                               ELSE <<>>]
    /\ lastOp' = "analyzeNodeCaption"
    /\ UNCHANGED <<pet, stepState, now, nextRunAt, numMeshNodes, txGood, prefs,
                   alive, rxCount, boots, lastRx, calcRet, calcAt, savedFrom,
                   batteryChargePercent, drawStatics, draft, nodeChecks>>

NextCaption == AnalyzeNodeCaption

SpecCaption == Init /\ [][NextCaption]_vars

(* the entries of the directory other than the local node's *)
Others(nodes) == {nodes[i] : i \in 1..Len(nodes)} \ {OwnNode}

(* the caption the claim describes for node n: long name, else short name,  *)
(* else the number in hex, within the width of the caption                  *)
ReferenceCaption(n) ==
    IF Len(n.long_name) > 0
    THEN HelloName(Truncated(n.long_name, MAX_NAME_LENGTH))
    ELSE IF Len(n.short_name) > 0
    THEN HelloName(Truncated(n.short_name, MAX_NAME_LENGTH))
    ELSE HelloNode(n.num)

(* a check classified NEW_NODE_DISCOVERED *)
NewNodeFound ==
    /\ analysis.of = "executeNodeDiscoveryCheck"
    /\ analysis.result.discoveryType = NEW_NODE_DISCOVERED

(* C32: on NEW_NODE_DISCOVERED the caption names the most recently heard     *)
(* node other than the local one, by its long name if that is non-empty,    *)
(* else by its short name if that is non-empty, else by its number in hex;  *)
(* the caption of every NEW_NODE_DISCOVERED is non-empty.                   *)
C32_Caption ==
    NewNodeFound =>
        /\ analysis.lastNodeName # <<>>
        /\ \E n \in Others(analysis.nodes) :
              /\ \A m \in Others(analysis.nodes) : m.last_heard <= n.last_heard
              /\ analysis.lastNodeName = ReferenceCaption(n)

----------------------------------------------------------------------------
(* The INTENSE fields of the draft: packets and recomputes at any instant *)

TELEMETRY_APP == 67           \* a port that is neither text nor position

(* port numbers of inbound packets: text, position, another one *)
IntensePorts == {TEXT_MESSAGE_APP, POSITION_APP, TELEMETRY_APP}

IntenseTick ==
    /\ now + IntenseStep <= IntenseHorizon
    /\ now' = now + IntenseStep
    /\ lastOp' = "tick"
    /\ UNCHANGED <<pet, stepState, nextRunAt, numMeshNodes, txGood, prefs, alive,
                   rxCount, boots, lastRx, calcRet, calcAt, savedFrom, analysis,
                   batteryChargePercent, drawStatics, draft, nodeChecks>>

(* handleReceived() of the draft; at most one packet per instant of the     *)
(* clock, handled before the recomputes of that instant                     *)
IntenseHandleReceived ==
    /\ rxCount < MaxIntenseRx
    /\ lastOp = "tick"
    /\ \E port \in IntensePorts :
          /\ draft' = [draftHandleReceived(draft, port, now) EXCEPT !.arrivals =
                          IF port \in {TEXT_MESSAGE_APP, POSITION_APP}
                          THEN Append(@, now) ELSE @]
          /\ lastRx' = Packet(21, NODENUM_BROADCAST, port, 3, 3)
    /\ rxCount' = rxCount + 1
    /\ lastOp' = "handleReceived"
    /\ UNCHANGED <<pet, stepState, now, nextRunAt, numMeshNodes, txGood, prefs, alive,
                   boots, calcRet, calcAt, savedFrom, analysis,
                   batteryChargePercent, drawStatics, nodeChecks>>

(* calculateNewState() of the draft, as far as the INTENSE branch decides *)
IntenseCalculateNewState ==
    /\ LET b == IntenseBranch(draft, now)
       IN  draft' = b.draft /\ calcRet' = b.ret
    /\ calcAt' = now
    /\ lastOp' = "calculateNewState"
    /\ UNCHANGED <<pet, stepState, now, nextRunAt, numMeshNodes, txGood, prefs, alive,
                   rxCount, boots, lastRx, savedFrom, analysis,
                   batteryChargePercent, drawStatics, nodeChecks>>

NextIntense ==
    \/ IntenseTick
    \/ IntenseHandleReceived
    \/ IntenseCalculateNewState

SpecIntense == Init /\ [][NextIntense]_vars

(* how many of the arrivals in `a` are less than 5 s before t *)
RecentArrivals(a, t) == Cardinality({k \in 1..Len(a) : t - a[k] < 5000})

(* the step is the arrival of a text or position packet *)
QualifyingArrival == Len(draft'.arrivals) = Len(draft.arrivals) + 1

(* C33: in the draft, a text or position packet that is the 4th within 5 s  *)
(* leaves INTENSE active; while active, a recompute less than 3 s after the *)
(* activation returns INTENSE and the first one at 3 s or later ends it; a   *)
(* packet with fewer than 3 others in the 5 s before it neither activates    *)
(* INTENSE nor moves its start time; a packet arriving while INTENSE is      *)
(* active leaves its start time alone.                                       *)
C33_MessageRate ==
    /\ [](lastOp = "handleReceived" /\ lastRx.portnum # TELEMETRY_APP
            /\ RecentArrivals(draft.arrivals, now) >= 4
            => draft.inIntenseState)
    /\ [][/\ lastOp' = "calculateNewState" /\ draft.inIntenseState
               => IF now - draft.intenseStartTime < 3000
                  THEN calcRet' = INTENSE /\ draft'.inIntenseState
                  ELSE calcRet' # INTENSE /\ ~draft'.inIntenseState
          /\ QualifyingArrival /\ RecentArrivals(draft'.arrivals, now) < 4
               => /\ draft'.inIntenseState = draft.inIntenseState
                  /\ draft'.intenseStartTime = draft.intenseStartTime
          /\ draft.inIntenseState
               => draft'.intenseStartTime = draft.intenseStartTime]_vars

----------------------------------------------------------------------------
(* a sent state or a received/grateful cycle was armed after the discovery  *)
(* that is showing                                                          *)
ArmedOverDiscovery ==
    /\ pet.showingNewNode
    /\ \/ pet.senderStartTime > pet.nodeDiscoveryTime
       \/ pet.excitedStartTime > pet.nodeDiscoveryTime

(* C34: the discovery timer (showingNewNode, nodeDiscoveryTime) is written   *)
(* only by a node check that triggers a discovery and by the display update  *)
(* that clears the flag more than 10 s after the trigger; arming the sent    *)
(* state or the received cycle, and their expiry, leave it alone.  Once a    *)
(* state armed over a discovery is no longer active, every recompute less    *)
(* than 8 s after the discovery trigger, with no blink active, returns and   *)
(* leaves HAPPY.                                                             *)
C34_TimerPreserved ==
    /\ [](Recomputed /\ ArmedOverDiscovery /\ ~AboveDiscovered
            /\ calcAt - pet.nodeDiscoveryTime < 8000
            => calcRet = HAPPY /\ pet.currentState = HAPPY)
    /\ [][/\ pet'.nodeDiscoveryTime # pet.nodeDiscoveryTime
               => NodeCheckStep /\ DiscoveredTriggered
          /\ pet'.showingNewNode # pet.showingNewNode
               => \/ NodeCheckStep /\ DiscoveredTriggered
                  \/ /\ lastOp' = "executeDisplayUpdate"
                     /\ now - pet.nodeDiscoveryTime > 10000
                     /\ ~pet'.showingNewNode]_vars

(* HAPPY is back: a received cycle armed after the discovery has run out,    *)
(* the discovery is less than 8 s old                                        *)
C34_Witness ==
    /\ Recomputed
    /\ calcRet = HAPPY
    /\ pet.excitedStartTime > pet.nodeDiscoveryTime
    /\ ~pet.inExcitedState
    /\ calcAt - pet.excitedStartTime >= 6000

----------------------------------------------------------------------------
(* C35: a recompute made while the sleep condition holds and nothing above   *)
(* the sleep state is active has entered the sleep state with the look       *)
(* cycle back at position 0, and a recompute that ends the sleep state       *)
(* leaves the look cycle at position 0.                                      *)
C35_SleepClearsCycle ==
    /\ []((Recomputed /\ (LowBatteryReading \/ isNightTime) /\ NothingAboveSleep)
            => pet.inSleepyState /\ pet.lookingCycle = 0)
    /\ [][(pet.inSleepyState \/ pet.currentState \in SleepStates)
             /\ ~pet'.inSleepyState /\ pet'.currentState \notin SleepStates
             => pet'.lookingCycle = 0]_vars

----------------------------------------------------------------------------
(* C36: at every instant, whatever steps, packets and frames have come       *)
(* before, the current state is not that of a timed state below one whose    *)
(* timer is still running: no EXCITED, GRATEFUL or HAPPY during the sent     *)
(* state, no HAPPY during the received/grateful cycle.                       *)
C36_HigherWins ==
    /\ SenderActive(pet, now) =>
          pet.currentState \notin {EXCITED, GRATEFUL, HAPPY}
    /\ ExcitedActive(pet, now) => pet.currentState # HAPPY

----------------------------------------------------------------------------
(* C37: while the sending flag is set and the stored count is not 0, no      *)
(* step changes the stored count, and a check made then triggers nothing;    *)
(* a check made with the flag clear that finds the total above a non-zero    *)
(* stored count triggers the discovered state and stores the total, whether  *)
(* or not checks were suppressed since the total grew.                       *)
C37_IncreaseKept ==
    [][/\ (pet.isSendingMessage /\ pet.currentNodeCount # 0) =>
             /\ pet'.currentNodeCount = pet.currentNodeCount
             /\ NodeCheckStep => DiscoveredUntouched
       /\ (NodeCheckStep /\ ~pet.isSendingMessage /\ pet.currentNodeCount # 0
              /\ numMeshNodes > pet.currentNodeCount) =>
             /\ analyzeNodeDiscovery(pet, numMeshNodes, pet.currentNodeCount)
                    = NEW_NODE_DISCOVERED
             /\ DiscoveredTriggered
             /\ pet'.currentNodeCount = U8(numMeshNodes)]_vars

(* a discovery triggered by the first check after the sending flag cleared,  *)
(* the check before it having seen the same total and been suppressed       *)
C37_Witness ==
    /\ lastOp = "executeNodeDiscoveryCheck"
    /\ pet.showingNewNode /\ pet.nodeDiscoveryTime = now
    /\ numMeshNodes = 2 /\ pet.currentNodeCount = 2
    /\ ~pet.isSendingMessage
    /\ nodeChecks.before = [type |-> SENDING_INTERFERENCE, total |-> 2]
    /\ nodeChecks.last = [type |-> NEW_NODE_DISCOVERED, total |-> 2]

----------------------------------------------------------------------------
(* The sending flag under a host that keeps calling: time passes, and a due *)
(* runOnce() is run before the clock moves on (OSThread runs a thread when   *)
(* the delay it returned has elapsed).                                       *)
NextSending ==
    \/ Tick(SendingHorizon)
    \/ TxGoodInc(TxTimes)
    \/ HandleReceived(Packets, RxTimes, MaxRx)
    \/ RunOnce

SpecSending ==
    /\ Init
    /\ [][NextSending]_vars
    /\ WF_vars(Tick(SendingHorizon))
    /\ WF_vars(RunOnce)

(* the time since the last call of triggerSenderState() *)
SinceSent == now - pet.senderStartTime

(* triggerSenderState() has been called: the constructor leaves             *)
(* senderStartTime at 0 and no transmission of the runs is observed at 0 ms *)
SentTriggered == pet.senderStartTime > 0

----------------------------------------------------------------------------
(* C38: the sending flag is set only while triggerSenderState() has been   *)
(* called, at most 5 seconds (and the sampling grain of the passes)        *)
(* earlier, and whenever the flag is set it is cleared later, under a host *)
(* that keeps calling runOnce().                                           *)
C38_FlagCleared ==
    /\ [](pet.isSendingMessage => SentTriggered /\ SinceSent <= SendingTimeout + FineSpan)
    /\ (pet.isSendingMessage ~> ~pet.isSendingMessage)

C38_Witness ==
    /\ lastOp = "executePetStateUpdate"
    /\ ~pet.isSendingMessage /\ ~pet.inSenderState
    /\ pet.senderStartTime > 0 /\ SinceSent >= 2000

----------------------------------------------------------------------------
(* the classifications on which executeNodeDiscoveryCheck() stores the total *)
UpdatingTypes == {NEW_NODE_DISCOVERED, NODE_COUNT_CHANGED, FIRST_BOOT_DETECTION}

(* C39: after a node check that stores the total of a directory that is not *)
(* empty, the stored count is that total; and when the check before stored  *)
(* its total and the last check saw the same total with the sending flag    *)
(* clear, the last check classified NODE_COUNT_UNCHANGED.                   *)
C39_BaselineIsTotal ==
    /\ (nodeChecks.last.type \in UpdatingTypes /\ nodeChecks.last.total >= 1)
          => pet.currentNodeCount = nodeChecks.last.total
    /\ (/\ nodeChecks.before.type \in UpdatingTypes
        /\ nodeChecks.before.total >= 1
        /\ nodeChecks.last.total = nodeChecks.before.total
        /\ nodeChecks.last.type # SENDING_INTERFERENCE)
          => nodeChecks.last.type = NODE_COUNT_UNCHANGED

----------------------------------------------------------------------------
friend_bond_threshold == 3    \* PersonalityTraits::friend_bond_threshold

(* bool LoRabotModule::isFriend(uint32_t nodeId) *)
isFriend(p, nodeId) ==
    \E i \in 0..(p.friendCount - 1) :
        /\ p.friends[i].nodeId = nodeId
        /\ p.friends[i].encounters >= friend_bond_threshold

(* the senders of SpecPersist *)
FriendIds == {mp.from : mp \in FriendPackets} \ {0}

(* C40: handling a packet lowers the encounters of no friend record, and a  *)
(* sender that isFriend() reported before the packet is reported after it.  *)
C40_FriendStays ==
    [][lastOp' = "handleReceived" =>
          /\ \A i \in 0..(pet.friendCount - 1) :
                pet'.friends[i].encounters >= pet.friends[i].encounters
          /\ \A id \in FriendIds : isFriend(pet, id) => isFriend(pet', id)]_vars

====
